---- MODULE Spec2Model ----
(***************************************************************************)
(* A model of the luxseed handle pool (luxseed-utility/src/pool.rs), of    *)
(* the render-pass / framebuffer caches of the Vulkan backend and of the   *)
(* RenderSystem frame loop that is built on them.                          *)
(*                                                                         *)
(* Indices are 0-based as in the Rust code; slot i of a Vec is element     *)
(* i + 1 of the TLA+ sequence that models it.                              *)
(***************************************************************************)
EXTENDS Integers, Sequences, FiniteSets, TLC

(***************************************************************************)
(* Bounds.  U16_MAX stands for u16::MAX: the largest index, the largest    *)
(* generation and the largest pool capacity.  It is scaled down so that    *)
(* the generation wrap-around and the capacity limit are reachable.        *)
(***************************************************************************)
U16_MAX == 3

\* Largest size given to Pool::with_size at construction.
MaxInitSize == 2

\* Total number of successful free() calls explored in one behaviour.
MaxFrees == 4

\* Number of further successful free() calls explored for handles that
\* were freed before (such a handle matches its slot again once the slot's
\* generation has wrapped).
MaxStaleFrees == 1

\* u16::MAX as the limit of the pool's capacity, scaled less far: used
\* where growth alone is studied, so that one growth adds several slots.
GrowLimit == 6

---------------------------------------------------------------------------
(* Handle<T> and the pool's pure operations                                *)

Handle(i, g) == [index |-> i, generation |-> g]

\* Handle::default(): u16::MAX in both fields.
DefaultHandle == Handle(U16_MAX, U16_MAX)

\* Option::<Handle>::None, as stored in an item and as "no handle returned".
NoHandle == Handle(-1, -1)

\* The item the `init` closure of the pool under study constructs: no stored
\* handle, and a payload (raw, desc, ...) that is "default" or "written".
InitItem == [handle |-> NoHandle, data |-> "default"]

Min(a, b) == IF a < b THEN a ELSE b

\* Vec::reverse
Reverse(s) == [k \in 1..Len(s) |-> s[Len(s) + 1 - k]]

\* The indices pushed by `for i in lo..hi { push(i as u16) }`
IndexRange(lo, hi) == [k \in 1..(IF hi > lo THEN hi - lo ELSE 0) |-> lo + k - 1]

\* Vec::resize / resize_with: keep the old elements, fill up to n with v.
Resize(s, n, v) == [k \in 1..n |-> IF k <= Len(s) THEN s[k] ELSE v]

\* Pool::with_size (for a size that is not above u16::MAX)
with_size(size, init) ==
    [ items        |-> [k \in 1..size |-> init],
      generations  |-> [k \in 1..size |-> 0],
      free_indices |-> Reverse(IndexRange(0, size)),
      fp_init      |-> init ]

\* A mutant of is_match: the generation is not compared.
is_match_any_generation(p, h) ==
    h.index >= 0 /\ h.index < Len(p.generations)

\* Pool::is_match: generations.get(index) is bounds-checked.
is_match(p, h) ==
    /\ h.index >= 0
    /\ h.index < Len(p.generations)
    /\ p.generations[h.index + 1] = h.generation

\* Pool::get / Pool::get_mut: the slot the returned reference points to,
\* or found = FALSE for None.  items.get(index) is bounds-checked as well.
get(p, h) ==
    IF is_match(p, h) /\ h.index < Len(p.items)
    THEN [found |-> TRUE, slot |-> h.index]
    ELSE [found |-> FALSE, slot |-> -1]

get_mut(p, h) == get(p, h)

\* A mutant of the addition: it saturates at u16::MAX.
SaturatingInc(g) == Min(g + 1, U16_MAX)

\* The u16 addition of `generations[index] += 1` in a build without
\* overflow checks.
WrappingInc(g) == (g + 1) % (U16_MAX + 1)

\* A mutant of free: the generation is left as it was.
free_no_bump(p, h) ==
    IF is_match(p, h)
    THEN [p EXCEPT !.items[h.index + 1].handle = NoHandle,
                   !.free_indices = Append(@, h.index)]
    ELSE p

\* A mutant of free: set_handle(None) is left out.
free_keeps_stored_handle(p, h) ==
    IF is_match(p, h)
    THEN [p EXCEPT !.free_indices = Append(@, h.index),
                   !.generations[h.index + 1] = WrappingInc(@)]
    ELSE p

\* A mutant of free: the handle's generation is not compared.
free_any_generation(p, h) ==
    IF is_match_any_generation(p, h)
    THEN [p EXCEPT !.items[h.index + 1].handle = NoHandle,
                   !.free_indices = Append(@, h.index),
                   !.generations[h.index + 1] = WrappingInc(@)]
    ELSE p

\* Pool::free, in a build where the addition wraps.
free(p, h) ==
    IF is_match(p, h)
    THEN [p EXCEPT !.items[h.index + 1].handle = NoHandle,
                   !.free_indices = Append(@, h.index),
                   !.generations[h.index + 1] = WrappingInc(@)]
    ELSE p

\* Pool::free in a build with overflow checks, when the generation is
\* u16::MAX: the handle is cleared and the index pushed, then `+= 1` panics.
free_until_overflow(p, h) ==
    [p EXCEPT !.items[h.index + 1].handle = NoHandle,
              !.free_indices = Append(@, h.index)]

\* Whether `generations[index] += 1` overflows for this handle.
free_overflows(p, h) ==
    is_match(p, h) /\ p.generations[h.index + 1] = U16_MAX

\* A mutant of double_size: the new length is clamped one too high.
double_size_clamp_off_by_one(p) ==
    LET old_len == Len(p.generations)
        new_len == Min(old_len * 2, U16_MAX + 1)
    IN [p EXCEPT !.items        = Resize(@, new_len, p.fp_init),
                 !.generations  = Resize(@, new_len, 0),
                 !.free_indices = Reverse(@ \o IndexRange(old_len, new_len))]

\* A mutant of double_size: items is not resized.
double_size_generations_only(p) ==
    LET old_len == Len(p.generations)
        new_len == Min(old_len * 2, U16_MAX)
    IN [p EXCEPT !.generations  = Resize(@, new_len, 0),
                 !.free_indices = Reverse(@ \o IndexRange(old_len, new_len))]

\* Pool::double_size, past its `old_len == u16::MAX` panic.
double_size(p) ==
    LET old_len == Len(p.generations)
        new_len == Min(old_len * 2, U16_MAX)
    IN [p EXCEPT !.items        = Resize(@, new_len, p.fp_init),
                 !.generations  = Resize(@, new_len, 0),
                 !.free_indices = Reverse(@ \o IndexRange(old_len, new_len))]

\* A mutant of pop_free: the oldest free index is taken (FIFO).
pop_free_fifo(p) ==
    LET index  == Head(p.free_indices)
        handle == Handle(index, p.generations[index + 1])
    IN [ pool   |-> [p EXCEPT !.free_indices = Tail(@),
                              !.items[index + 1].handle = handle],
         handle |-> handle ]

\* A mutant of pop_free: the index is read and left on the free stack.
pop_free_keep(p) ==
    LET index  == p.free_indices[Len(p.free_indices)]
        handle == Handle(index, p.generations[index + 1])
    IN [ pool   |-> [p EXCEPT !.items[index + 1].handle = handle],
         handle |-> handle ]

\* The `Some(index) = self.free_indices.pop()` branch of Pool::malloc.
pop_free(p) ==
    LET n      == Len(p.free_indices)
        index  == p.free_indices[n]
        handle == Handle(index, p.generations[index + 1])
    IN [ pool   |-> [p EXCEPT !.free_indices = SubSeq(@, 1, n - 1),
                              !.items[index + 1].handle = handle],
         handle |-> handle ]

\* Pool::malloc.  outcome is "ok" (a handle is returned), "panic_max"
\* (double_size panics: the pool is at u16::MAX slots) or "diverged":
\* double_size added no slot, so the recursive call finds the pool as it
\* was and the recursion never ends.
malloc(p) ==
    IF p.free_indices # <<>>
    THEN [outcome |-> "ok", grew |-> FALSE] @@ pop_free(p)
    ELSE IF Len(p.generations) = U16_MAX
    THEN [outcome |-> "panic_max", grew |-> FALSE, pool |-> p, handle |-> NoHandle]
    ELSE LET q == double_size(p)
         IN IF q.free_indices = <<>>
            THEN [outcome |-> "diverged", grew |-> FALSE, pool |-> q, handle |-> NoHandle]
            ELSE [outcome |-> "ok", grew |-> TRUE] @@ pop_free(q)

---------------------------------------------------------------------------
(* The pool as a state machine: one Pool<T>, its owner's calls             *)

VARIABLES
    pool,            \* the Pool: items, generations, free_indices, fp_init
    pool_status,     \* "ok", or how the process ended inside a pool call
    overflow_checks, \* whether the build panics on integer overflow
    init_size,       \* the size given to with_size
    issued,          \* history: every handle malloc has returned
    live,            \* history: handles returned by malloc and not freed since
    freed,           \* history: handles a free() call has released
    frees,           \* history: per slot index, the number of releases
    nfree,           \* history: total number of releases
    free_order,      \* history: released handles whose slot is still free, oldest first
    last,            \* history: the last call, its argument and its result
    scen,            \* history: progress through malloc, malloc, free(first), malloc
    scen_h           \* history: the handles that sequence returned

poolVars == <<pool, pool_status, overflow_checks, init_size, issued, live, freed,
              frees, nfree, free_order, last, scen, scen_h>>

\* The state of the cache model (second part of this module)
VARIABLES
    device,        \* VulkanDevice: render_pass_cache, framebuffer_cache
    res_pool,      \* the backend's pools: render_pass, framebuffer
    vk_alive,      \* the driver: handles of its live render_passes, framebuffers,
                   \* and of the live framebuffers an attachment of which is
                   \* gone; how many objects of each kind it has created
    held,          \* history: the pool handles create_* has returned, per kind
    cache_calls,   \* history: [desc, raw] of every get_or_create_* that returned Ok
    cache_status,  \* "ok", or how the process ended
    ncalls,        \* number of backend calls made
    last_cache     \* history: the last backend call and its result

cacheVars == <<device, res_pool, vk_alive, held, cache_calls, cache_status,
               ncalls, last_cache>>

\* The state of the frame-loop model (third part of this module)
VARIABLES
    rs,            \* the RenderSystem struct
    p_swapchain,   \* res_pool.swapchain
    gpu,           \* the driver: per fence, signaled and submissions pending
    rs_status,     \* "running", "error" (a handler returned Err) or "panic"
    caller,        \* "render_loop" (App::render) or "any" (calls in any order)
    pc,            \* the caller: "idle", "begin_frame" (inside the call),
                   \* "recording" or "submitted"
    call,          \* history: the last call, the slot it ran on, its result
    log,           \* history: the backend calls the last call made
    rlog,          \* history: those of them made inside recreate_swapchain
    stale          \* history: out-of-date reported, no recreation completed since

frameVars == <<rs, p_swapchain, gpu, rs_status, caller, pc, call, log, rlog, stale>>

\* The state of the backend's handle-taking operations (fourth part)
VARIABLES
    bk_pool,       \* res_pool: fence, semaphore, command_buffer, buffer, swapchain
    bk_issued,     \* history: per pool, the handles create_* has returned
    bk_status,     \* "ok", or how the process ended
    bk_call,       \* history: the last backend call and its result
    bk_n           \* number of create_* / destroy_* calls made

backendVars == <<bk_pool, bk_issued, bk_status, bk_call, bk_n>>

\* The state of the atomic id counter and its threads (fifth part)
VARIABLES
    COUNTER,       \* the static AtomicU32 of one define_atomic_id! type
    id_pc,         \* per thread: "idle", "fetched" (inside new()) or "panicked"
    id_local,      \* per thread: the value its fetch_add returned
    id_status,     \* "running", or "panic" once the main thread has panicked
    id_returned,   \* history: per id, how many calls of new() have returned it
    id_calls       \* history: number of calls of new() begun

idVars == <<COUNTER, id_pc, id_local, id_status, id_returned, id_calls>>

\* The state of the entity allocator (sixth part)
VARIABLES
    entities,      \* Entities: metas, pending, free_cursor, len
    ecs_status,    \* "ok", or how the process ended
    ecs_issued,    \* history: the entities alloc_entity has returned
    ecs_live,      \* history: those of them not freed since
    ecs_allocs,    \* history: number of alloc_entity calls that returned
    ecs_frees,     \* history: number of free_entity calls that returned Ok
    ecs_freed,     \* history: per id, how many of them freed an entity of that id
    ecs_last,      \* history: the last call, its argument and its result
    reserving,     \* per thread: idle, or inside reserve_entity with the n it fetched
    ecs_reserved,  \* history: the entities reserve_entity has returned since the last flush
    ecs_flush      \* history: the last flush, the ids init was called with, what was reserved

ecsVars == <<entities, ecs_status, ecs_issued, ecs_live, ecs_allocs, ecs_frees,
             ecs_freed, ecs_last, reserving, ecs_reserved, ecs_flush>>

NoCall == [op |-> "none", h |-> NoHandle, found |-> FALSE, slot |-> -1,
           grew |-> FALSE, recent |-> NoHandle, cap_before |-> 0,
           full_before |-> FALSE, changed |-> FALSE]

\* The handles a caller can hold: those this pool gave out, and the default.
KnownHandles == issued \cup {DefaultHandle}

Top(s) == IF s = <<>> THEN NoHandle ELSE s[Len(s)]

\* Pool::with_size(init_size, init), and empty histories
PoolStart ==
    /\ init_size \in 0..MaxInitSize
    /\ overflow_checks \in BOOLEAN
    /\ pool = with_size(init_size, InitItem)
    /\ pool_status = "ok"
    /\ issued = {}
    /\ live = {}
    /\ freed = {}
    /\ frees = [i \in 0..U16_MAX |-> 0]
    /\ nfree = 0
    /\ free_order = <<>>
    /\ last = NoCall
    /\ scen = 0
    /\ scen_h = <<>>

\* let (h, item) = pool.malloc();
Malloc ==
    /\ pool_status = "ok"
    /\ LET r == malloc(pool)
       IN /\ pool' = r.pool
          /\ pool_status' = r.outcome
          /\ issued' = IF r.outcome = "ok" THEN issued \cup {r.handle} ELSE issued
          /\ live' = IF r.outcome = "ok" THEN live \cup {r.handle} ELSE live
          /\ free_order' = SelectSeq(free_order, LAMBDA e : e.index # r.handle.index)
          /\ last' = [op |-> "malloc", h |-> r.handle, found |-> r.outcome = "ok",
                      slot |-> r.handle.index, grew |-> r.grew,
                      recent |-> Top(free_order),
                      cap_before |-> Len(pool.generations),
                      full_before |-> pool.free_indices = <<>>,
                      changed |-> r.pool # pool]
          /\ scen' = IF r.outcome = "ok" /\ scen \in {0, 1, 3} THEN scen + 1 ELSE -1
          /\ scen_h' = IF r.outcome = "ok" /\ scen \in {0, 1, 3}
                       THEN Append(scen_h, r.handle) ELSE <<>>
    /\ UNCHANGED <<overflow_checks, init_size, freed, frees, nfree>>
    /\ UNCHANGED <<cacheVars, frameVars, backendVars, idVars, ecsVars>>

\* pool.free(h);
Free(h) ==
    /\ pool_status = "ok"
    /\ is_match(pool, h) =>
          IF h \in freed THEN nfree < MaxFrees + MaxStaleFrees
                         ELSE nfree < MaxFrees
    /\ LET hit      == is_match(pool, h)
           oob      == hit /\ h.index >= Len(pool.items)
           overflow == overflow_checks /\ free_overflows(pool, h)
       IN /\ pool' = IF oob THEN pool
                     ELSE IF overflow THEN free_until_overflow(pool, h)
                     ELSE free(pool, h)
          /\ pool_status' = IF oob THEN "panic_oob"
                            ELSE IF overflow THEN "panic_overflow" ELSE "ok"
          /\ live' = IF hit /\ ~oob /\ ~overflow THEN live \ {h} ELSE live
          /\ freed' = IF hit /\ ~oob /\ ~overflow THEN freed \cup {h} ELSE freed
          /\ frees' = IF hit /\ ~oob /\ ~overflow
                      THEN [frees EXCEPT ![h.index] = @ + 1] ELSE frees
          /\ nfree' = IF hit /\ ~oob /\ ~overflow THEN nfree + 1 ELSE nfree
          /\ free_order' = IF hit /\ ~oob /\ ~overflow
                           THEN Append(free_order, h) ELSE free_order
          /\ last' = [NoCall EXCEPT !.op = "free", !.h = h, !.found = hit,
                                    !.slot = IF hit THEN h.index ELSE -1,
                                    !.cap_before = Len(pool.generations),
                                    !.changed = (pool' # pool)]
          /\ scen' = IF scen = 2 /\ h = scen_h[1] /\ hit /\ ~oob /\ ~overflow
                     THEN 3 ELSE -1
          /\ scen_h' = IF scen' = 3 THEN scen_h ELSE <<>>
    /\ UNCHANGED <<overflow_checks, init_size, issued>>
    /\ UNCHANGED <<cacheVars, frameVars, backendVars, idVars, ecsVars>>

\* pool.get(h): takes &self and returns Some(&items[slot]) or None; nothing
\* of the pool changes whatever the handle.
Get(h) ==
    /\ pool_status = "ok"
    /\ get(pool, h).found \in BOOLEAN
    /\ UNCHANGED <<poolVars, cacheVars, frameVars, backendVars, idVars, ecsVars>>

\* if let Some(item) = pool.get_mut(h) { item.init(..) }: the caller
\* writes the payload of the item the handle resolves to.
Write(h) ==
    /\ pool_status = "ok"
    /\ LET r == get_mut(pool, h)
       IN pool' = IF r.found
                  THEN [pool EXCEPT !.items[r.slot + 1].data = "written"]
                  ELSE pool
    /\ UNCHANGED <<pool_status, overflow_checks, init_size, issued, live,
                   freed, frees, nfree, free_order, last, scen, scen_h>>
    /\ UNCHANGED <<cacheVars, frameVars, backendVars, idVars, ecsVars>>

PoolNext ==
    \/ Malloc
    \/ \E h \in KnownHandles : Free(h)
    \/ \E h \in KnownHandles : Get(h)
    \/ \E h \in KnownHandles : Write(h)

\* A mutant of double_size_to: the new indices are pushed and the free
\* stack is not reversed.
double_size_to_unreversed(p, limit) ==
    LET old_len == Len(p.generations)
        new_len == Min(old_len * 2, limit)
    IN [p EXCEPT !.items        = Resize(@, new_len, p.fp_init),
                 !.generations  = Resize(@, new_len, 0),
                 !.free_indices = @ \o IndexRange(old_len, new_len)]

\* Pool::double_size, past its panic, with u16::MAX given as `limit`.
double_size_to(p, limit) ==
    LET old_len == Len(p.generations)
        new_len == Min(old_len * 2, limit)
    IN [p EXCEPT !.items        = Resize(@, new_len, p.fp_init),
                 !.generations  = Resize(@, new_len, 0),
                 !.free_indices = Reverse(@ \o IndexRange(old_len, new_len))]

\* Pool::malloc, with u16::MAX given as `limit`.
malloc_to(p, limit) ==
    IF p.free_indices # <<>>
    THEN [outcome |-> "ok", grew |-> FALSE] @@ pop_free(p)
    ELSE IF Len(p.generations) = limit
    THEN [outcome |-> "panic_max", grew |-> FALSE, pool |-> p, handle |-> NoHandle]
    ELSE LET q == double_size_to(p, limit)
         IN IF q.free_indices = <<>>
            THEN [outcome |-> "diverged", grew |-> FALSE, pool |-> q, handle |-> NoHandle]
            ELSE [outcome |-> "ok", grew |-> TRUE] @@ pop_free(q)

\* let (h, item) = pool.malloc(); for a pool whose capacity limit is
\* GrowLimit.
GrowMalloc ==
    /\ pool_status = "ok"
    /\ LET r == malloc_to(pool, GrowLimit)
       IN /\ pool' = r.pool
          /\ pool_status' = r.outcome
          /\ issued' = IF r.outcome = "ok" THEN issued \cup {r.handle} ELSE issued
          /\ live' = IF r.outcome = "ok" THEN live \cup {r.handle} ELSE live
          /\ free_order' = SelectSeq(free_order, LAMBDA e : e.index # r.handle.index)
          /\ last' = [op |-> "malloc", h |-> r.handle, found |-> r.outcome = "ok",
                      slot |-> r.handle.index, grew |-> r.grew,
                      recent |-> Top(free_order),
                      cap_before |-> Len(pool.generations),
                      full_before |-> pool.free_indices = <<>>,
                      changed |-> r.pool # pool]
    /\ UNCHANGED <<overflow_checks, init_size, freed, frees, nfree, scen, scen_h>>
    /\ UNCHANGED <<cacheVars, frameVars, backendVars, idVars, ecsVars>>

\* Pool::with_size(init_size, init) for that pool, and empty histories.
GrowStart ==
    /\ init_size \in 0..MaxInitSize
    /\ overflow_checks \in BOOLEAN
    /\ pool = with_size(init_size, InitItem)
    /\ pool_status = "ok"
    /\ issued = {}
    /\ live = {}
    /\ freed = {}
    /\ frees = [i \in 0..GrowLimit |-> 0]
    /\ nfree = 0
    /\ free_order = <<>>
    /\ last = NoCall
    /\ scen = 0
    /\ scen_h = <<>>

\* A pool that is allocated from, freed into and grown up to GrowLimit.
GrowNext ==
    \/ GrowMalloc
    \/ \E h \in live : Free(h)

---------------------------------------------------------------------------
(* Claims about the pool                                                   *)

\* A slot's generation has not wrapped: it was released at most u16::MAX times.
NotWrapped(i) == frees[i] <= U16_MAX

\* Every handle that is live resolves, through get and get_mut, to its own slot.
LiveHandlesResolve ==
    \A h \in live :
        /\ get(pool, h) = [found |-> TRUE, slot |-> h.index]
        /\ get_mut(pool, h) = [found |-> TRUE, slot |-> h.index]

\* C1 as stated: a handle returned by malloc resolves to its slot until it is
\* freed, whatever else is allocated, freed or grown in between, and once
\* free(h) has been called get(h) returns None.
C1_GetUntilFree ==
    pool_status = "ok" =>
        /\ LiveHandlesResolve
        /\ \A h \in freed : ~get(pool, h).found

\* C1 as amended: as C1_GetUntilFree, with get(h) returning None after free(h)
\* for as long as the slot of h has been released fewer than 2^16 times.
C1_GetUntilFreeNoWrap ==
    pool_status = "ok" =>
        /\ LiveHandlesResolve
        /\ \A h \in freed : NotWrapped(h.index) => ~get(pool, h).found

\* C1 witness: the pool has grown, one handle is live, another one is freed
\* and does not resolve, and the slot of the freed one has been reissued.
C1_Witness ==
    /\ pool_status = "ok"
    /\ Len(pool.generations) > init_size
    /\ \E h \in live, f \in freed :
          /\ f.index = h.index
          /\ NotWrapped(f.index)
          /\ ~get(pool, f).found
          /\ get(pool, h).found

\* C2 as stated: when malloc returns h2 in the slot of a handle h freed
\* earlier, h2.generation differs from h.generation, get(h2) succeeds and
\* get(h) returns None.
C2_ReuseDiffers ==
    (pool_status = "ok" /\ last.op = "malloc") =>
        \A h \in freed :
            h.index = last.h.index =>
                /\ last.h.generation # h.generation
                /\ get(pool, last.h).found
                /\ ~get(pool, h).found

\* C2 as amended: as C2_ReuseDiffers, for a slot that has been released
\* fewer than 2^16 times.
C2_ReuseDiffersNoWrap ==
    (pool_status = "ok" /\ last.op = "malloc") =>
        \A h \in freed :
            (h.index = last.h.index /\ NotWrapped(h.index)) =>
                /\ last.h.generation # h.generation
                /\ get(pool, last.h).found
                /\ ~get(pool, h).found

\* C2 witness: malloc has just reissued a slot that two earlier handles held.
C2_Witness ==
    /\ pool_status = "ok"
    /\ last.op = "malloc"
    /\ NotWrapped(last.h.index)
    /\ Cardinality({h \in freed : h.index = last.h.index}) >= 2

\* The sequence malloc, malloc, free(first), malloc on a fresh pool of
\* capacity >= 2 returns (0, 0), (1, 0) and then (0, 1).
ConcreteSequence ==
    (scen = 4 /\ init_size >= 2) =>
        scen_h = <<Handle(0, 0), Handle(1, 0), Handle(0, 1)>>

\* C3 as stated: the concrete sequence, and in general malloc returns the
\* index freed most recently with the generation of the freed handle plus one.
C3_LifoReuse ==
    /\ ConcreteSequence
    /\ (pool_status = "ok" /\ last.op = "malloc" /\ last.recent # NoHandle) =>
          /\ last.h.index = last.recent.index
          /\ last.h.generation = last.recent.generation + 1

\* C3 as amended: as C3_LifoReuse, the general part for a slot that has been
\* released fewer than 2^16 times (the release at generation 65535 wraps the
\* generation to 0).
C3_LifoReuseNoWrap ==
    /\ ConcreteSequence
    /\ (pool_status = "ok" /\ last.op = "malloc" /\ last.recent # NoHandle
          /\ NotWrapped(last.h.index)) =>
          /\ last.h.index = last.recent.index
          /\ last.h.generation = last.recent.generation + 1

\* C3 witness: the concrete sequence has run to its fourth call, which
\* reissued the slot freed just before.
C3_Witness ==
    /\ scen = 4
    /\ init_size >= 2
    /\ last.op = "malloc"
    /\ last.recent = scen_h[1]

\* C4 as stated, for a capacity N below the index limit: when the N slots of
\* a pool created with capacity N are all allocated, the next malloc returns
\* a handle by growing the pool, and the N handles issued before still
\* resolve to their slot with their generation.
C4_GrowthKeepsHandles ==
    (last.op = "malloc" /\ last.full_before /\ last.cap_before = init_size
        /\ init_size < U16_MAX) =>
        /\ pool_status = "ok"
        /\ last.grew
        /\ last.h # NoHandle
        /\ Len(pool.generations) > init_size
        /\ \A h \in live \ {last.h} :
              /\ get(pool, h) = [found |-> TRUE, slot |-> h.index]
              /\ pool.generations[h.index + 1] = h.generation

\* C5: the default handle never validates, and get, get_mut and free given
\* a handle whose index is not below the capacity find nothing, change
\* nothing and end normally.
C5_OutOfRangeNotFound ==
    /\ ~is_match(pool, DefaultHandle)
    /\ \A h \in KnownHandles :
          h.index >= Len(pool.generations) =>
              /\ ~get(pool, h).found
              /\ ~get_mut(pool, h).found
              /\ free(pool, h) = pool
    /\ (last.op = "free" /\ last.h.index >= last.cap_before) =>
          /\ ~last.found
          /\ ~last.changed
          /\ pool_status = "ok"

\* C5 witness: free was called with the default handle on a pool that has
\* grown to its maximum capacity and whose last slot has been reissued.
C5_Witness ==
    /\ last.op = "free"
    /\ last.h = DefaultHandle
    /\ Len(pool.generations) = U16_MAX
    /\ pool.generations[U16_MAX] > 0

---------------------------------------------------------------------------
(* The render-pass and framebuffer caches of the Vulkan backend            *)

MAX_RENDER_TARGETS == 8

\* Number of driver handle values of one kind (VkRenderPass, VkFramebuffer).
MaxRaw == 2

\* Number of backend calls explored in one behaviour of the cache model.
MaxCacheCalls == 4

\* Slots the render-pass and framebuffer pools are constructed with.
CachePoolSize == 2

\* vk::RenderPass::null(), vk::Framebuffer::null(), vk::ImageView::null()
VK_NULL == 0

\* The values a driver handle of one kind can take.
RawHandles == 1..MaxRaw

\* [x; n] with the first elements replaced by those of s.
Pad(s, n, x) == [k \in 1..n |-> IF k <= Len(s) THEN s[k] ELSE x]

\* impl From<Format> for vk::Format: the listed formats map to their
\* namesakes, every other one (Format::Unknown included) to UNDEFINED.
VkFormat(item) ==
    IF item \in {"B8G8R8A8_UNORM", "B8G8R8A8_SRGB", "R8G8B8A8_UNORM",
                 "R8G8B8A8_SRGB", "B8G8R8_UNORM", "B8G8R8_SRGB",
                 "R8G8B8_UNORM", "R8G8B8_SRGB", "R32_SFLOAT", "R32G32_SFLOAT",
                 "R32G32B32_SFLOAT", "R32G32B32A32_SFLOAT",
                 "D24_UNORM_S8_UINT", "D32_SFLOAT", "D32_SFLOAT_S8_UINT"}
    THEN item ELSE "UNDEFINED"

\* impl From<ImageLayout> for vk::ImageLayout
VkImageLayout(value) ==
    CASE value = "Undefined" -> "UNDEFINED"
      [] value = "ColorAttachmentOptimal" -> "COLOR_ATTACHMENT_OPTIMAL"
      [] value = "DepthStencilAttachmentOptimal" -> "DEPTH_STENCIL_ATTACHMENT_OPTIMAL"
      [] value = "PresentSrcKhr" -> "PRESENT_SRC_KHR"

\* impl From<RenderTargetLoadAction> for vk::AttachmentLoadOp
VkAttachmentLoadOp(item) ==
    CASE item = "Load" -> "LOAD"
      [] item = "Clear" -> "CLEAR"
      [] item = "DontCare" -> "DONT_CARE"

\* impl From<SampleCount> for vk::SampleCountFlags
VkSampleCountFlags(item) ==
    CASE item = "Sample1" -> "TYPE_1"
      [] item = "Sample4" -> "TYPE_4"

\* VulkanRenderPassOutput::default(): the zero value of every vk type.
DefaultVulkanRenderPassOutput ==
    [ num_colors                 |-> 0,
      color_formats              |-> Pad(<<>>, MAX_RENDER_TARGETS, "UNDEFINED"),
      color_final_layouts        |-> Pad(<<>>, MAX_RENDER_TARGETS, "UNDEFINED"),
      color_load                 |-> Pad(<<>>, MAX_RENDER_TARGETS, "LOAD"),
      color_samples              |-> Pad(<<>>, MAX_RENDER_TARGETS, "EMPTY"),
      depth_stencil_format       |-> "UNDEFINED",
      depth_stencil_final_layout |-> "UNDEFINED",
      depth_stencil_samples      |-> "EMPTY",
      depth_load                 |-> "LOAD",
      stencil_load               |-> "LOAD" ]

\* impl From<RenderPassOutput> for VulkanRenderPassOutput: the scalar
\* fields are converted, and of the arrays only the first num_colors
\* entries; the others keep the default.
VulkanRenderPassOutputFrom(value) ==
    LET Conv(arr, F(_), dflt) ==
            [k \in 1..MAX_RENDER_TARGETS |->
                IF k <= value.num_colors THEN F(arr[k]) ELSE dflt]
    IN [ num_colors                 |-> value.num_colors,
         color_formats              |-> Conv(value.color_formats, VkFormat, "UNDEFINED"),
         color_final_layouts        |-> Conv(value.color_final_layouts, VkImageLayout, "UNDEFINED"),
         color_load                 |-> Conv(value.color_loads, VkAttachmentLoadOp, "LOAD"),
         color_samples              |-> Conv(value.color_samples, VkSampleCountFlags, "EMPTY"),
         depth_stencil_format       |-> VkFormat(value.depth_stencil_format),
         depth_stencil_final_layout |-> VkImageLayout(value.depth_stencil_final_layout),
         depth_stencil_samples      |-> VkSampleCountFlags(value.depth_stencil_samples),
         depth_load                 |-> VkAttachmentLoadOp(value.depth_load),
         stencil_load               |-> VkAttachmentLoadOp(value.stencil_load) ]

\* A RenderPassOutput with one colour attachment of the given format and a
\* D32_SFLOAT depth attachment; `rest` is what color_formats holds past
\* num_colors (the fields are public, the builder leaves the default).
RenderPassOutput(format, rest) ==
    [ num_colors                 |-> 1,
      color_formats              |-> Pad(<<format>>, MAX_RENDER_TARGETS, rest),
      color_final_layouts        |-> Pad(<<"PresentSrcKhr">>, MAX_RENDER_TARGETS, "Undefined"),
      color_loads                |-> Pad(<<"Clear">>, MAX_RENDER_TARGETS, "DontCare"),
      color_samples              |-> Pad(<<"Sample1">>, MAX_RENDER_TARGETS, "Sample1"),
      depth_stencil_format       |-> "D32_SFLOAT",
      depth_stencil_final_layout |-> "DepthStencilAttachmentOptimal",
      depth_load                 |-> "Clear",
      stencil_load               |-> "DontCare",
      depth_stencil_samples      |-> "Sample1" ]

\* The outputs the caller asks render passes for: two that differ in the
\* attachment format, and one that differs from the first only past
\* num_colors.
RenderPassOutputs ==
    { RenderPassOutput("B8G8R8A8_SRGB", "Unknown"),
      RenderPassOutput("R8G8B8A8_SRGB", "Unknown"),
      RenderPassOutput("B8G8R8A8_SRGB", "R32_SFLOAT") }

\* The extent and layer count of the texture behind every image view.
TextureExtent == [width |-> 800, height |-> 600, array_layers |-> 1]

\* What p_texture_view.get(view) and p_texture.get(view.texture) give for
\* one view handle of a FramebufferCreateDesc: nothing, or the view's raw
\* handle and the extent of its texture.
ViewResolutions ==
    {[found |-> FALSE, raw |-> VK_NULL, width |-> 0, height |-> 0, layers |-> 0]}
    \cup {[found |-> TRUE, raw |-> v, width |-> TextureExtent.width,
           height |-> TextureExtent.height,
           layers |-> TextureExtent.array_layers] : v \in RawHandles}

\* VulkanFramebufferDesc::from_create_desc, for a creation without depth
\* view; color_views is the sequence of resolutions of creation.color_views.
from_create_desc(render_pass, color_views) ==
    LET n == Len(color_views)
    IN IF \E k \in 1..n : ~color_views[k].found
       THEN [ok |-> FALSE, desc |-> <<>>]
       ELSE [ok   |-> TRUE,
             desc |-> [ render_pass     |-> render_pass,
                        num_attachments |-> n,
                        views  |-> [k \in 1..(MAX_RENDER_TARGETS + 1) |->
                                       IF k <= n THEN color_views[k].raw ELSE VK_NULL],
                        width  |-> IF n = 0 THEN 0 ELSE color_views[n].width,
                        height |-> IF n = 0 THEN 0 ELSE color_views[n].height,
                        layers |-> IF n = 0 THEN 1 ELSE color_views[n].layers ]]

\* VulkanFramebufferDesc::default()
DefaultVulkanFramebufferDesc ==
    [ render_pass |-> VK_NULL, num_attachments |-> 0,
      views |-> [k \in 1..(MAX_RENDER_TARGETS + 1) |-> VK_NULL],
      width |-> 0, height |-> 0, layers |-> 0 ]

\* VulkanRenderPass::default() and VulkanFramebuffer::default(), the items
\* the pools are filled with.
DefaultVulkanRenderPass ==
    [handle |-> NoHandle, raw |-> VK_NULL, output |-> DefaultVulkanRenderPassOutput]

DefaultVulkanFramebuffer ==
    [handle |-> NoHandle, raw |-> VK_NULL, desc |-> DefaultVulkanFramebufferDesc]

\* A HashMap as its set of entries; the key type derives Hash, PartialEq
\* and Eq, so two keys are the same key iff all their fields are equal.
contains_key(map, k) == \E e \in map : e.key = k

map_get(map, k) == (CHOOSE e \in map : e.key = k).raw

map_insert(map, k, v) == {e \in map : e.key # k} \cup {[key |-> k, raw |-> v]}

\* What vkCreateRenderPass / vkCreateFramebuffer can answer when `alive`
\* are the handles of the live objects of that kind: an error, or a handle
\* that no live object has (one of a destroyed object can be given again).
DriverAnswers(alive) ==
    {[ok |-> FALSE, raw |-> VK_NULL]}
    \cup {[ok |-> TRUE, raw |-> r] : r \in RawHandles \ alive}

\* A mutant of get_or_create_render_pass: the created render pass is not
\* put in the cache.
get_or_create_render_pass_uncached(dev, alive, layout, answer) ==
    IF contains_key(dev.render_pass_cache, layout)
    THEN [ok |-> TRUE, raw |-> map_get(dev.render_pass_cache, layout),
          hit |-> TRUE, dev |-> dev, alive |-> alive,
          created |-> 0]
    ELSE IF ~answer.ok
    THEN [ok |-> FALSE, raw |-> VK_NULL, hit |-> FALSE, dev |-> dev, alive |-> alive,
          created |-> 0]
    ELSE [ok |-> TRUE, raw |-> answer.raw, hit |-> FALSE, dev |-> dev,
          alive |-> alive \cup {answer.raw}, created |-> 1]

\* VulkanDevice::get_or_create_render_pass; answer is what the driver
\* says if create_vulkan_render_pass is reached.
get_or_create_render_pass(dev, alive, layout, answer) ==
    IF contains_key(dev.render_pass_cache, layout)
    THEN [ok |-> TRUE, raw |-> map_get(dev.render_pass_cache, layout),
          hit |-> TRUE, dev |-> dev, alive |-> alive,
          created |-> 0]
    ELSE IF ~answer.ok
    THEN [ok |-> FALSE, raw |-> VK_NULL, hit |-> FALSE, dev |-> dev, alive |-> alive,
          created |-> 0]
    ELSE [ok |-> TRUE, raw |-> answer.raw, hit |-> FALSE,
          dev |-> [dev EXCEPT !.render_pass_cache = map_insert(@, layout, answer.raw)],
          alive |-> alive \cup {answer.raw}, created |-> 1]

\* A get_or_create_framebuffer that drops the entry of a destroyed
\* framebuffer and creates the object again.
get_or_create_framebuffer_evicting(dev, alive, desc, answer) ==
    IF /\ contains_key(dev.framebuffer_cache, desc)
       /\ map_get(dev.framebuffer_cache, desc) \in alive
    THEN [ok |-> TRUE, raw |-> map_get(dev.framebuffer_cache, desc),
          hit |-> TRUE, dev |-> dev, alive |-> alive,
          created |-> 0]
    ELSE IF ~answer.ok
    THEN [ok |-> FALSE, raw |-> VK_NULL, hit |-> FALSE, dev |-> dev, alive |-> alive,
          created |-> 0]
    ELSE [ok |-> TRUE, raw |-> answer.raw, hit |-> FALSE,
          dev |-> [dev EXCEPT !.framebuffer_cache = map_insert(@, desc, answer.raw)],
          alive |-> alive \cup {answer.raw}, created |-> 1]

\* VulkanDevice::get_or_create_framebuffer
get_or_create_framebuffer(dev, alive, desc, answer) ==
    IF contains_key(dev.framebuffer_cache, desc)
    THEN [ok |-> TRUE, raw |-> map_get(dev.framebuffer_cache, desc),
          hit |-> TRUE, dev |-> dev, alive |-> alive,
          created |-> 0]
    ELSE IF ~answer.ok
    THEN [ok |-> FALSE, raw |-> VK_NULL, hit |-> FALSE, dev |-> dev, alive |-> alive,
          created |-> 0]
    ELSE [ok |-> TRUE, raw |-> answer.raw, hit |-> FALSE,
          dev |-> [dev EXCEPT !.framebuffer_cache = map_insert(@, desc, answer.raw)],
          alive |-> alive \cup {answer.raw}, created |-> 1]

---------------------------------------------------------------------------
(* The caches as a state machine: the backend's create_* / destroy_* calls *)

NoCacheCall == [op |-> "none", ok |-> FALSE, hit |-> FALSE, raw |-> VK_NULL]

\* VulkanDevice::new and the pools of a new backend
CacheStart ==
    /\ device = [render_pass_cache |-> {}, framebuffer_cache |-> {}]
    /\ res_pool = [render_pass |-> with_size(CachePoolSize, DefaultVulkanRenderPass),
                   framebuffer |-> with_size(CachePoolSize, DefaultVulkanFramebuffer)]
    /\ vk_alive = [render_passes |-> {}, framebuffers |-> {}, invalidated |-> {},
                   created |-> [render_pass |-> 0, framebuffer |-> 0]]
    /\ held = [render_pass |-> {}, framebuffer |-> {}]
    /\ cache_calls = [render_pass |-> {}, framebuffer |-> {}]
    /\ cache_status = "ok"
    /\ ncalls = 0
    /\ last_cache = NoCacheCall

\* VulkanBackend::create_render_pass
CreateRenderPass(output, answer) ==
    /\ cache_status = "ok"
    /\ ncalls < MaxCacheCalls
    /\ LET m      == malloc(res_pool.render_pass)
           layout == VulkanRenderPassOutputFrom(output)
           r      == get_or_create_render_pass(device, vk_alive.render_passes,
                                               layout, answer)
           slot   == m.handle.index + 1
       IN IF m.outcome # "ok"
          THEN /\ cache_status' = m.outcome
               /\ res_pool' = [res_pool EXCEPT !.render_pass = m.pool]
               /\ last_cache' = [NoCacheCall EXCEPT !.op = "create_render_pass"]
               /\ UNCHANGED <<device, vk_alive, held, cache_calls>>
          ELSE /\ cache_status' = "ok"
               /\ device' = r.dev
               /\ vk_alive' = [vk_alive EXCEPT !.render_passes = r.alive,
                                                !.created.render_pass = @ + r.created]
               /\ res_pool' = [res_pool EXCEPT !.render_pass =
                      IF r.ok
                      THEN [m.pool EXCEPT !.items[slot].raw = r.raw,
                                          !.items[slot].output = layout]
                      ELSE m.pool]
               /\ held' = IF r.ok
                          THEN [held EXCEPT !.render_pass = @ \cup {m.handle}]
                          ELSE held
               /\ cache_calls' = IF r.ok
                      THEN [cache_calls EXCEPT !.render_pass =
                               @ \cup {[desc |-> layout, raw |-> r.raw]}]
                      ELSE cache_calls
               /\ last_cache' = [op |-> "create_render_pass", ok |-> r.ok,
                                 hit |-> r.hit, raw |-> r.raw]
    /\ ncalls' = ncalls + 1
    /\ UNCHANGED <<poolVars, frameVars, backendVars, idVars, ecsVars>>

\* VulkanBackend::destroy_render_pass.  VulkanRenderPass::destroy hands the
\* item's raw handle to vkDestroyRenderPass; when no live render pass has
\* that handle the call is undefined: `crash` says whether the process
\* dies in the driver or goes on.
DestroyRenderPass(h, crash) ==
    /\ cache_status = "ok"
    /\ ncalls < MaxCacheCalls
    /\ LET p        == res_pool.render_pass
           g        == get_mut(p, h)
           raw      == p.items[g.slot + 1].raw
           dangling == g.found /\ raw # VK_NULL /\ raw \notin vk_alive.render_passes
           overflow == overflow_checks /\ free_overflows(p, h)
           cleared  == [p EXCEPT !.items[g.slot + 1].raw = VK_NULL,
                                 !.items[g.slot + 1].output = DefaultVulkanRenderPassOutput]
       IN /\ crash => dangling
          /\ IF ~g.found
             THEN UNCHANGED <<res_pool, vk_alive, cache_status>>
             ELSE IF crash
             THEN /\ cache_status' = "crash_in_driver"
                  /\ UNCHANGED <<res_pool, vk_alive>>
             ELSE /\ vk_alive' = [vk_alive EXCEPT !.render_passes = @ \ {raw}]
                  /\ res_pool' = [res_pool EXCEPT !.render_pass =
                         IF overflow THEN free_until_overflow(cleared, h)
                         ELSE free(cleared, h)]
                  /\ cache_status' = IF overflow THEN "panic_overflow" ELSE "ok"
          /\ last_cache' = [op |-> "destroy_render_pass", ok |-> g.found,
                            hit |-> dangling, raw |-> IF g.found THEN raw ELSE VK_NULL]
    /\ ncalls' = ncalls + 1
    /\ UNCHANGED <<device, held, cache_calls>>
    /\ UNCHANGED <<poolVars, frameVars, backendVars, idVars, ecsVars>>

\* VulkanBackend::create_framebuffer, for a description with one colour
\* view and no depth view; color_view is what the view handle resolves to.
CreateFramebuffer(h, color_view, answer) ==
    /\ cache_status = "ok"
    /\ ncalls < MaxCacheCalls
    /\ LET rp   == get(res_pool.render_pass, h)
           m    == malloc(res_pool.framebuffer)
           d    == from_create_desc(res_pool.render_pass.items[rp.slot + 1].raw,
                                    <<color_view>>)
           r    == get_or_create_framebuffer(device, vk_alive.framebuffers,
                                             d.desc, answer)
           slot == m.handle.index + 1
       IN IF ~rp.found
          THEN /\ last_cache' = [NoCacheCall EXCEPT !.op = "create_framebuffer"]
               /\ UNCHANGED <<device, res_pool, vk_alive, held, cache_calls,
                              cache_status>>
          ELSE IF m.outcome # "ok"
          THEN /\ cache_status' = m.outcome
               /\ res_pool' = [res_pool EXCEPT !.framebuffer = m.pool]
               /\ last_cache' = [NoCacheCall EXCEPT !.op = "create_framebuffer"]
               /\ UNCHANGED <<device, vk_alive, held, cache_calls>>
          ELSE IF ~d.ok
          THEN /\ res_pool' = [res_pool EXCEPT !.framebuffer = m.pool]
               /\ last_cache' = [NoCacheCall EXCEPT !.op = "create_framebuffer"]
               /\ UNCHANGED <<device, vk_alive, held, cache_calls, cache_status>>
          ELSE /\ cache_status' = "ok"
               /\ device' = r.dev
               /\ vk_alive' = [vk_alive EXCEPT !.framebuffers = r.alive,
                                                !.created.framebuffer = @ + r.created]
               /\ res_pool' = [res_pool EXCEPT !.framebuffer =
                      IF r.ok
                      THEN [m.pool EXCEPT !.items[slot].raw = r.raw,
                                          !.items[slot].desc = d.desc]
                      ELSE m.pool]
               /\ held' = IF r.ok
                          THEN [held EXCEPT !.framebuffer = @ \cup {m.handle}]
                          ELSE held
               /\ cache_calls' = IF r.ok
                      THEN [cache_calls EXCEPT !.framebuffer =
                               @ \cup {[desc |-> d.desc, raw |-> r.raw]}]
                      ELSE cache_calls
               /\ last_cache' = [op |-> "create_framebuffer", ok |-> r.ok,
                                 hit |-> r.hit, raw |-> r.raw]
    /\ ncalls' = ncalls + 1
    /\ UNCHANGED <<poolVars, frameVars, backendVars, idVars, ecsVars>>

\* VulkanBackend::destroy_framebuffer; `crash` as in DestroyRenderPass.
DestroyFramebuffer(h, crash) ==
    /\ cache_status = "ok"
    /\ ncalls < MaxCacheCalls
    /\ LET p        == res_pool.framebuffer
           g        == get_mut(p, h)
           raw      == p.items[g.slot + 1].raw
           dangling == g.found /\ raw # VK_NULL /\ raw \notin vk_alive.framebuffers
           overflow == overflow_checks /\ free_overflows(p, h)
           cleared  == [p EXCEPT !.items[g.slot + 1].raw = VK_NULL,
                                 !.items[g.slot + 1].desc = DefaultVulkanFramebufferDesc]
       IN /\ crash => dangling
          /\ IF ~g.found
             THEN UNCHANGED <<res_pool, vk_alive, cache_status>>
             ELSE IF crash
             THEN /\ cache_status' = "crash_in_driver"
                  /\ UNCHANGED <<res_pool, vk_alive>>
             ELSE /\ vk_alive' = [vk_alive EXCEPT !.framebuffers = @ \ {raw},
                                                  !.invalidated = @ \ {raw}]
                  /\ res_pool' = [res_pool EXCEPT !.framebuffer =
                         IF overflow THEN free_until_overflow(cleared, h)
                         ELSE free(cleared, h)]
                  /\ cache_status' = IF overflow THEN "panic_overflow" ELSE "ok"
          /\ last_cache' = [op |-> "destroy_framebuffer", ok |-> g.found,
                            hit |-> dangling, raw |-> IF g.found THEN raw ELSE VK_NULL]
    /\ ncalls' = ncalls + 1
    /\ UNCHANGED <<device, held, cache_calls>>
    /\ UNCHANGED <<poolVars, frameVars, backendVars, idVars, ecsVars>>

\* The live framebuffers that were created with one of the image views vs
\* (VulkanDevice::create_vulkan_framebuffer attaches desc.views), as the
\* cache's entries tell.
FramebuffersOf(dev, alive, vs) ==
    {e.raw : e \in {x \in dev.framebuffer_cache :
                      /\ x.raw \in alive
                      /\ \E k \in DOMAIN x.key.views : x.key.views[k] \in vs}}

\* What VulkanBackend::destroy_image_view, destroy_image and
\* destroy_swapchain have in common: the image views with raw handles vs
\* are handed to vkDestroyImageView and their pool slots are freed; the
\* device and its two caches are not referenced, and Ok(()) is returned.
\* vs is empty when the handle passed in is not in its pool or has no
\* views (the pools of images and views are the environment of this model).
destroy_views(op, vs) ==
    /\ cache_status = "ok"
    /\ ncalls < MaxCacheCalls
    /\ vk_alive' = [vk_alive EXCEPT !.invalidated = @ \cup
                      FramebuffersOf(device, vk_alive.framebuffers, vs)]
    /\ last_cache' = [op |-> op, ok |-> TRUE, hit |-> FALSE, raw |-> VK_NULL]
    /\ ncalls' = ncalls + 1
    /\ UNCHANGED <<device, res_pool, held, cache_calls, cache_status>>
    /\ UNCHANGED <<poolVars, frameVars, backendVars, idVars, ecsVars>>

\* VulkanBackend::destroy_image_view: one view
DestroyImageView(vs) == destroy_views("destroy_image_view", vs)

\* VulkanBackend::destroy_image: every view of the image (texture.views.drain())
DestroyImage(vs) == destroy_views("destroy_image", vs)

\* VulkanBackend::destroy_swapchain: every view of every back buffer
DestroySwapchain(vs) == destroy_views("destroy_swapchain", vs)

\* The variables of the single-pool model, when that model is not running.
PoolUnused ==
    /\ init_size = 0
    /\ pool = with_size(0, InitItem)
    /\ pool_status = "ok"
    /\ issued = {}
    /\ live = {}
    /\ freed = {}
    /\ frees = [i \in 0..U16_MAX |-> 0]
    /\ nfree = 0
    /\ free_order = <<>>
    /\ last = NoCall
    /\ scen = 0
    /\ scen_h = <<>>

CacheNext ==
    \/ \E output \in RenderPassOutputs :
         \E answer \in DriverAnswers(vk_alive.render_passes) :
            CreateRenderPass(output, answer)
    \/ \E h \in held.render_pass \cup {DefaultHandle} :
         \E crash \in BOOLEAN : DestroyRenderPass(h, crash)
    \/ \E h \in held.render_pass \cup {DefaultHandle} :
         \E color_view \in ViewResolutions :
            \E answer \in DriverAnswers(vk_alive.framebuffers) :
               CreateFramebuffer(h, color_view, answer)
    \/ \E h \in held.framebuffer \cup {DefaultHandle} :
         \E crash \in BOOLEAN : DestroyFramebuffer(h, crash)
    \/ \E vs \in {{}} \cup {{v} : v \in RawHandles} : DestroyImageView(vs)
    \/ \E vs \in SUBSET RawHandles : DestroyImage(vs)
    \/ \E vs \in SUBSET RawHandles : DestroySwapchain(vs)

---------------------------------------------------------------------------
(* RenderSystem: frame slots, swapchain recreation (pure part)             *)

\* Largest number of frame slots (image_count of the first swapchain).
MaxSlots == 2

\* Largest number of images the driver creates for a swapchain.
MaxImages == 3

\* Cap on the submissions pending on one fence.
MaxPending == 2

\* Stands for usize::MAX, the index acquire_next_image reports for
\* ERROR_OUT_OF_DATE_KHR.
USIZE_MAX == 2147483647

\* Slots of res_pool.swapchain.
SwapchainPoolSize == 1

\* VulkanSwapchain::default(); back_buffers is modelled by its length.
DefaultVulkanSwapchain == [handle |-> NoHandle, back_buffers |-> 0]

\* The handle the (n+1)-th malloc of a new pool returns.
NthHandle(n) == Handle(n, 0)

\* The framebuffer RenderSystem creates for back buffer i of a swapchain,
\* and the depth image it creates along with that swapchain.
FramebufferOf(swapchain, i) == [swapchain |-> swapchain, back_buffer |-> i]

DepthImageOf(swapchain) == [swapchain |-> swapchain]

\* A mutant of get_in_flight_fence: the next slot's fence.
get_next_slot_fence(sys) ==
    sys.in_flight_fences[((sys.frame + 1) % sys.max_frames_in_flight) + 1]

\* RenderSystem::get_in_flight_fence
get_in_flight_fence(sys) == sys.in_flight_fences[sys.frame + 1]

\* RenderSystem::get_image_available_semaphore
get_image_available_semaphore(sys) == sys.image_availables[sys.frame + 1]

\* RenderSystem::get_render_finished_semaphore
get_render_finished_semaphore(sys) == sys.render_finisheds[sys.frame + 1]

\* A handler runs on a context c: the RenderSystem (rs), the swapchain
\* pool, the driver's fences and queue (gpu), the backend calls made so far
\* (log; rlog: those made inside recreate_swapchain), whether a
\* recreation has completed, and status "ok", "error" (a `?` returned
\* Err) or "panic".
Entry(name, fence, semaphore) ==
    [call |-> name, fence |-> fence, semaphore |-> semaphore, image |-> -1]

\* A backend call that is given or gives the index of a swapchain image.
ImageEntry(name, semaphore, image) ==
    [call |-> name, fence |-> NoHandle, semaphore |-> semaphore, image |-> image]

Logged(c, e) == [c EXCEPT !.log = Append(@, e)]

InRecreate(c, name) ==
    [c EXCEPT !.log = Append(@, Entry(name, NoHandle, NoHandle)),
              !.rlog = Append(@, name)]

Failed(c) == [c EXCEPT !.status = "error"]

Panicked(c) == [c EXCEPT !.status = "panic"]

\* The rest of a function body after a step: skipped once a `?` has
\* returned or the thread has panicked.
Then(c, F(_)) == IF c.status = "ok" THEN F(c) ELSE c

\* vkDeviceWaitIdle returning success: every submission has completed and
\* has signaled its fence.
AllComplete(drv) ==
    [ signaled |-> [f \in DOMAIN drv.signaled |->
                       drv.signaled[f] \/ drv.pending[f] > 0],
      pending  |-> [f \in DOMAIN drv.pending |-> 0] ]

\* A mutant of recreate_swapchain's first step: no idle wait is issued.
no_device_wait_idle(c, fails) == c

\* VulkanBackend::device_wait_idle
device_wait_idle(c, fails) ==
    LET c1 == InRecreate(c, "device_wait_idle")
    IN IF fails THEN Failed(c1) ELSE [c1 EXCEPT !.gpu = AllComplete(@)]

\* A mutant of destroy_swapchain: the old swapchain is kept (as a
\* recreation that could be rolled back would keep it).
destroy_swapchain_deferred(c, overflow_checked) ==
    InRecreate(c, "destroy_swapchain")

\* VulkanBackend::destroy_swapchain
destroy_swapchain(c, overflow_checked) ==
    LET g  == get_mut(c.p_swapchain, c.rs.swapchain)
        c1 == InRecreate(c, "destroy_swapchain")
        cleared == [c.p_swapchain EXCEPT !.items[g.slot + 1].back_buffers = 0]
    IN IF ~g.found THEN c1
       ELSE IF overflow_checked /\ free_overflows(c.p_swapchain, c.rs.swapchain)
       THEN Panicked([c1 EXCEPT !.p_swapchain =
                         free_until_overflow(cleared, c.rs.swapchain)])
       ELSE [c1 EXCEPT !.p_swapchain = free(cleared, c.rs.swapchain)]

\* `for fb in swapchain_framebuffers.iter() { destroy_framebuffer(*fb)?; }`
RECURSIVE destroy_framebuffers(_, _)
destroy_framebuffers(c, i) ==
    IF i >= Len(c.rs.swapchain_framebuffers) THEN c
    ELSE destroy_framebuffers(InRecreate(c, "destroy_framebuffer"), i + 1)

\* RenderSystem::cleanup_swapchain
cleanup_swapchain(c, overflow_checked) ==
    LET c1 == destroy_framebuffers(c, 0)
        c2 == InRecreate(c1, "destroy_image")
    IN destroy_swapchain(c2, overflow_checked)

\* What one recreate_swapchain meets: the backend call that returns Err
\* ("none": no call fails), for a call inside the loop the iteration in
\* which it fails, and the number of images the driver creates for the new
\* swapchain.  The image count varies where recreation runs to its end; a
\* failing recreation is given the largest count, so that the loop reaches
\* the failing iteration.
RecreateInputs ==
    [ fail_at    : {"none"},
      fail_iter  : {0},
      new_images : 1..MaxImages ]
    \cup [ fail_at    : {"device_wait_idle", "create_swapchain", "create_depth",
                        "transition_image_layout"},
           fail_iter  : {0},
           new_images : {MaxImages} ]
    \cup [ fail_at    : {"create_image_view", "create_framebuffer"},
           fail_iter  : 0..(MaxSlots - 1),
           new_images : {MaxImages} ]

\* VulkanBackend::create_swapchain and the assignment of its result
create_swapchain(c, ri) ==
    LET m    == malloc(c.p_swapchain)
        c1   == InRecreate(c, "create_swapchain")
        slot == m.handle.index + 1
    IN IF m.outcome # "ok"
       THEN Panicked([c1 EXCEPT !.p_swapchain = m.pool])
       ELSE IF ri.fail_at = "create_swapchain"
       THEN Failed([c1 EXCEPT !.p_swapchain = m.pool])
       ELSE [c1 EXCEPT !.p_swapchain =
                          [m.pool EXCEPT !.items[slot].back_buffers = ri.new_images],
                       !.rs.swapchain = m.handle]

\* create_depth and the assignment of the new depth image
create_depth(c, ri) ==
    LET c1 == InRecreate(c, "create_depth")
    IN IF ri.fail_at = "create_depth" THEN Failed(c1)
       ELSE [c1 EXCEPT !.rs.depth_image = DepthImageOf(c.rs.swapchain)]

\* transition_image_layout: a one-shot command buffer, submitted and
\* waited for with queue_wait_idle.
transition_image_layout(c, ri) ==
    LET c1 == InRecreate(c, "queue_wait_idle")
    IN IF ri.fail_at = "transition_image_layout" THEN Failed(c1) ELSE c1

\* `for i in 0..self.max_frames_in_flight { ... }` of recreate_swapchain
RECURSIVE create_framebuffers(_, _, _)
create_framebuffers(c, i, ri) ==
    IF i >= c.rs.max_frames_in_flight THEN c
    ELSE LET sc == get(c.p_swapchain, c.rs.swapchain)
             c1 == InRecreate(c, "get_swapchain_back_buffer")
             c2 == InRecreate(c1, "create_image_view")
             c3 == InRecreate(c2, "create_framebuffer")
         IN IF ~sc.found THEN Failed(c1)
            ELSE IF i >= c.p_swapchain.items[sc.slot + 1].back_buffers
            THEN Panicked(c1)
            ELSE IF ri.fail_at = "create_image_view" /\ ri.fail_iter = i
            THEN Failed(c2)
            ELSE IF ri.fail_at = "create_framebuffer" /\ ri.fail_iter = i
            THEN Failed(c3)
            ELSE create_framebuffers(
                    [c3 EXCEPT !.rs.swapchain_framebuffers =
                                  Append(@, FramebufferOf(c.rs.swapchain, i))],
                    i + 1, ri)

\* A mutant of recreate_swapchain: the idle wait comes after the cleanup.
recreate_swapchain_cleanup_first(c, ri, overflow_checked) ==
    LET c1 == cleanup_swapchain(c, overflow_checked)
        c2 == Then(c1, LAMBDA x : device_wait_idle(x, ri.fail_at = "device_wait_idle"))
        c3 == Then(c2, LAMBDA x : create_swapchain(x, ri))
        c4 == Then(c3, LAMBDA x : create_depth(x, ri))
        c5 == Then(c4, LAMBDA x : transition_image_layout(x, ri))
        c6 == Then(c5, LAMBDA x : create_framebuffers(
                         [x EXCEPT !.rs.swapchain_framebuffers = <<>>], 0, ri))
    IN Then(c6, LAMBDA x : [x EXCEPT !.recreated = TRUE])

\* RenderSystem::recreate_swapchain
recreate_swapchain(c, ri, overflow_checked) ==
    LET c1 == device_wait_idle(c, ri.fail_at = "device_wait_idle")
        c2 == Then(c1, LAMBDA x : cleanup_swapchain(x, overflow_checked))
        c3 == Then(c2, LAMBDA x : create_swapchain(x, ri))
        c4 == Then(c3, LAMBDA x : create_depth(x, ri))
        c5 == Then(c4, LAMBDA x : transition_image_layout(x, ri))
        c6 == Then(c5, LAMBDA x : create_framebuffers(
                         [x EXCEPT !.rs.swapchain_framebuffers = <<>>], 0, ri))
    IN Then(c6, LAMBDA x : [x EXCEPT !.recreated = TRUE])

\* What vkAcquireNextImageKHR can answer for a swapchain of n images.
AcquireAnswers(n) ==
    [kind : {"image", "suboptimal"}, index : 0..(n - 1)]
    \cup [kind : {"out_of_date", "error"}, index : {0}]

\* VulkanSwapchain::acquire_next_image: the match on the driver's answer.
acquire_next_image(ret) ==
    CASE ret.kind = "image"       -> [ok |-> TRUE, index |-> ret.index, suboptimal |-> FALSE]
      [] ret.kind = "suboptimal"  -> [ok |-> TRUE, index |-> ret.index, suboptimal |-> TRUE]
      [] ret.kind = "out_of_date" -> [ok |-> TRUE, index |-> USIZE_MAX, suboptimal |-> FALSE]
      [] ret.kind = "error"       -> [ok |-> FALSE, index |-> 0, suboptimal |-> FALSE]

\* The inputs of a recreation that is not reached.
NoRecreate == [fail_at |-> "none", fail_iter |-> 0, new_images |-> 1]

\* What one begin_frame meets: whether vkWaitForFences / vkResetFences
\* fail, the answer to the acquire, and the inputs of the recreation an
\* out-of-date answer leads to.
BeginInputs(n) ==
    {[wait_fails |-> TRUE, acquired |-> [kind |-> "error", index |-> 0],
      reset_fails |-> FALSE, recreate |-> NoRecreate]}
    \cup {[wait_fails |-> FALSE, acquired |-> a, reset_fails |-> r,
           recreate |-> NoRecreate] :
             a \in {x \in AcquireAnswers(n) : x.kind # "out_of_date"}, r \in BOOLEAN}
    \cup {[wait_fails |-> FALSE, acquired |-> [kind |-> "out_of_date", index |-> 0],
           reset_fails |-> FALSE, recreate |-> ri] : ri \in RecreateInputs}

\* A mutant of begin_frame's test: out-of-date is not recognised.
never_out_of_date(index) == FALSE

\* `image_index.0 == usize::MAX`
is_out_of_date(index) == index = USIZE_MAX

\* A mutant of begin_frame: the fence is reset right after the wait,
\* before the acquire.
begin_frame_resets_before_acquire(c, in, overflow_checked) ==
    LET fence == get_in_flight_fence(c.rs)
        c1 == Logged(c, Entry("wait_for_fences", fence, NoHandle))
        c2 == [Logged(c1, Entry("reset_fences", fence, NoHandle))
                 EXCEPT !.gpu.signaled[fence] = FALSE]
        c3 == [Logged(c2, ImageEntry("acquire_swapchain_next_image",
                                     get_image_available_semaphore(c.rs),
                                     IF in.acquired.kind \in {"image", "suboptimal"}
                                     THEN in.acquired.index ELSE -1))
                 EXCEPT !.acquired = in.acquired.kind]
        sc == get(c.p_swapchain, c.rs.swapchain)
        image_index == acquire_next_image(in.acquired)
    IN IF in.wait_fails THEN Failed(c1)
       ELSE IF in.reset_fails THEN Failed(c2)
       ELSE IF ~sc.found THEN Failed([c3 EXCEPT !.acquired = "none"])
       ELSE IF ~image_index.ok THEN Failed(c3)
       ELSE IF is_out_of_date(image_index.index)
       THEN Then(recreate_swapchain(c3, in.recreate, overflow_checked),
                 LAMBDA x : [x EXCEPT !.result = "false"])
       ELSE [c3 EXCEPT !.rs.image_index = image_index.index, !.result = "true"]

\* RenderSystem::begin_frame, from the point where wait_for_fences is
\* called; `in` is what the backend calls meet.
begin_frame(c, in, overflow_checked) ==
    LET c1 == Logged(c, Entry("wait_for_fences", get_in_flight_fence(c.rs), NoHandle))
        c2 == [Logged(c1, ImageEntry("acquire_swapchain_next_image",
                                     get_image_available_semaphore(c.rs),
                                     IF in.acquired.kind \in {"image", "suboptimal"}
                                     THEN in.acquired.index ELSE -1))
                 EXCEPT !.acquired = in.acquired.kind]
        sc == get(c.p_swapchain, c.rs.swapchain)
        image_index == acquire_next_image(in.acquired)
    IN IF in.wait_fails THEN Failed(c1)
       ELSE IF ~sc.found THEN Failed([c2 EXCEPT !.acquired = "none"])
       ELSE IF ~image_index.ok THEN Failed(c2)
       ELSE IF is_out_of_date(image_index.index)
       THEN Then(recreate_swapchain(c2, in.recreate, overflow_checked),
                 LAMBDA x : [x EXCEPT !.result = "false"])
       ELSE LET c3    == [c2 EXCEPT !.rs.image_index = image_index.index]
                fence == get_in_flight_fence(c3.rs)
                c4    == Logged(c3, Entry("reset_fences", fence, NoHandle))
            IN IF in.reset_fails THEN Failed(c4)
               ELSE [c4 EXCEPT !.gpu.signaled[fence] = FALSE, !.result = "true"]

\* What vkQueuePresentKHR can answer: Ok(false), Ok(true) (suboptimal),
\* ERROR_OUT_OF_DATE_KHR or another error.
PresentAnswers == {"ok", "suboptimal", "out_of_date", "error"}

\* What one end_frame meets.
EndInputs(recreate_flag) ==
    {[present |-> a, recreate |-> NoRecreate] :
        a \in IF recreate_flag THEN {"out_of_date", "error"}
              ELSE {"ok", "out_of_date", "error"}}
    \cup {[present |-> a, recreate |-> ri] :
             a \in IF recreate_flag THEN {"ok", "suboptimal"} ELSE {"suboptimal"},
             ri \in RecreateInputs}

\* VulkanQueue::present: the driver's error is returned with `?`.
queue_present(answer) ==
    IF answer \in {"ok", "suboptimal"}
    THEN [ok |-> TRUE, suboptimal |-> answer = "suboptimal"]
    ELSE [ok |-> FALSE, suboptimal |-> FALSE]

\* A mutant of end_frame: the slot is not advanced when a recreation ran.
end_frame_keeps_slot_after_recreate(c, recreate_flag, in, overflow_checked) ==
    LET c0 == [Logged(c, ImageEntry("queue_present",
                                    get_render_finished_semaphore(c.rs),
                                    c.rs.image_index))
                 EXCEPT !.forced = recreate_flag]
        c1 == [c0 EXCEPT !.presented = in.present]
        sc == get(c.p_swapchain, c.rs.swapchain)
        suboptimal == queue_present(in.present)
    IN IF ~sc.found THEN Failed(c0)
       ELSE IF ~suboptimal.ok THEN Failed(c1)
       ELSE IF suboptimal.suboptimal \/ recreate_flag
       THEN Then(recreate_swapchain(c1, in.recreate, overflow_checked),
                 LAMBDA x : [x EXCEPT !.result = "ok"])
       ELSE [c1 EXCEPT !.rs.frame = (c1.rs.frame + 1) % c1.rs.max_frames_in_flight,
                       !.result = "ok"]

\* RenderSystem::end_frame
end_frame(c, recreate_flag, in, overflow_checked) ==
    LET c0 == [Logged(c, ImageEntry("queue_present",
                                    get_render_finished_semaphore(c.rs),
                                    c.rs.image_index))
                 EXCEPT !.forced = recreate_flag]
        c1 == [c0 EXCEPT !.presented = in.present]
        sc == get(c.p_swapchain, c.rs.swapchain)
        suboptimal == queue_present(in.present)
        c2 == IF suboptimal.suboptimal \/ recreate_flag
              THEN recreate_swapchain(c1, in.recreate, overflow_checked)
              ELSE c1
    IN IF ~sc.found THEN Failed(c0)
       ELSE IF ~suboptimal.ok THEN Failed(c1)
       ELSE Then(c2, LAMBDA x :
               [x EXCEPT !.rs.frame = (x.rs.frame + 1) % x.rs.max_frames_in_flight,
                         !.result = "ok"])

\* A mutant of the wait: it returns at once.
wait_for_fences_does_not_wait(drv, fence) == TRUE

\* vkWaitForFences with timeout u64::MAX returns success only once the
\* fence is signaled.
wait_for_fences_returns(drv, fence) == drv.signaled[fence]

\* App::render, the queue_submit after a begin_frame that returned true:
\* the submission signals the current slot's fence when it completes.
queue_submit(c, fails) ==
    LET fence == get_in_flight_fence(c.rs)
        c1    == Logged(c, Entry("queue_submit", fence,
                                 get_image_available_semaphore(c.rs)))
    IN IF fails THEN Failed(c1)
       ELSE [c1 EXCEPT !.gpu.pending[fence] = @ + 1, !.result = "ok"]

---------------------------------------------------------------------------
(* RenderSystem as a state machine: the caller, the handlers, the GPU      *)

NoFrameCall ==
    [op |-> "none", result |-> "none", acquired |-> "none",
     presented |-> "none", forced |-> FALSE, trigger |-> "none",
     recreated |-> FALSE, slot |-> 0, kept_frame |-> TRUE,
     kept_image_index |-> TRUE]

\* The slot loop of RenderSystem::create: per slot a fence, created
\* signaled, two semaphores, and the framebuffer of back buffer i.  The
\* fence pool and the semaphore pool are new, so the handles are those of
\* their first mallocs.
RECURSIVE create_slots(_, _)
create_slots(c, i) ==
    IF i >= c.rs.max_frames_in_flight THEN c
    ELSE create_slots(
           [c EXCEPT
              !.rs.in_flight_fences = Append(@, NthHandle(i)),
              !.rs.image_availables = Append(@, NthHandle(2 * i)),
              !.rs.render_finisheds = Append(@, NthHandle(2 * i + 1)),
              !.rs.swapchain_framebuffers = Append(@, FramebufferOf(c.rs.swapchain, i)),
              !.log = @ \o << Entry("create_fence", NthHandle(i), NoHandle),
                              Entry("create_semaphore", NoHandle, NthHandle(2 * i)),
                              Entry("create_semaphore", NoHandle, NthHandle(2 * i + 1)),
                              Entry("get_swapchain_back_buffer", NoHandle, NoHandle),
                              Entry("create_image_view", NoHandle, NoHandle),
                              Entry("create_framebuffer", NoHandle, NoHandle) >>],
           i + 1)

\* A mutant of destroy's loop: only the first slot is destroyed.
destroy_slots_first_only(c, i) ==
    [c EXCEPT !.log = @ \o
       << Entry("destroy_fence", c.rs.in_flight_fences[1], NoHandle),
          Entry("destroy_semaphore", NoHandle, c.rs.image_availables[1]),
          Entry("destroy_semaphore", NoHandle, c.rs.render_finisheds[1]) >>]

\* RenderSystem::destroy, after the device_wait_idle().unwrap() of
\* App::destroy: the depth image, the sync objects of every slot, what
\* the swapchain owns, then command pool, render pass, surface, device.
RECURSIVE destroy_slots(_, _)
destroy_slots(c, i) ==
    IF i >= c.rs.max_frames_in_flight THEN c
    ELSE IF i >= Len(c.rs.in_flight_fences) THEN Panicked(c)
    ELSE destroy_slots(
           [c EXCEPT !.log = @ \o
              << Entry("destroy_fence", c.rs.in_flight_fences[i + 1], NoHandle),
                 Entry("destroy_semaphore", NoHandle, c.rs.image_availables[i + 1]),
                 Entry("destroy_semaphore", NoHandle, c.rs.render_finisheds[i + 1]) >>],
           i + 1)

destroy(c, wait_fails, overflow_checked) ==
    LET c0 == Logged(c, Entry("device_wait_idle", NoHandle, NoHandle))
        c1 == Logged([c0 EXCEPT !.gpu = AllComplete(@)],
                     Entry("destroy_image", NoHandle, NoHandle))
        c2 == destroy_slots(c1, 0)
        c3 == Then(c2, LAMBDA x :
                 [cleanup_swapchain(x, overflow_checked) EXCEPT !.rlog = <<>>])
        c4 == Then(c3, LAMBDA x :
                 [x EXCEPT !.log = @ \o
                    << Entry("destroy_command_pool", NoHandle, NoHandle),
                       Entry("destroy_render_pass", NoHandle, NoHandle),
                       Entry("destroy_surface", NoHandle, NoHandle),
                       Entry("destroy_device", NoHandle, NoHandle) >>,
                    !.result = "ok", !.status = "destroyed"])
    IN IF wait_fails THEN Panicked(c0) ELSE c4

\* RenderSystem::create for a swapchain with image_count n, for which the
\* driver made `images` images: n slots, each with a fence created
\* signaled and two semaphores, and one framebuffer per slot.
FrameStart(who, n, images) ==
    LET m == malloc(with_size(SwapchainPoolSize, DefaultVulkanSwapchain))
        c == create_slots(
               [ rs  |-> [ image_index            |-> 0,
                           swapchain              |-> m.handle,
                           swapchain_framebuffers |-> <<>>,
                           frame                  |-> 0,
                           max_frames_in_flight   |-> n,
                           in_flight_fences       |-> <<>>,
                           image_availables       |-> <<>>,
                           render_finisheds       |-> <<>>,
                           depth_image            |-> DepthImageOf(m.handle) ],
                 log |-> <<>> ], 0)
    IN /\ caller = who
       /\ p_swapchain = [m.pool EXCEPT !.items[m.handle.index + 1].back_buffers = images]
       /\ rs = c.rs
       /\ gpu = [ signaled |-> [f \in {NthHandle(i) : i \in 0..(n - 1)} |-> TRUE],
                  pending  |-> [f \in {NthHandle(i) : i \in 0..(n - 1)} |-> 0] ]
       /\ rs_status = "running"
       /\ pc = "idle"
       /\ call = [NoFrameCall EXCEPT !.op = "create", !.result = "ok"]
       /\ log = c.log
       /\ rlog = <<>>
       /\ stale = FALSE

\* The variables of the frame-loop model, when that model is not running.
FrameUnused == FrameStart("render_loop", 1, 1)

\* The context a handler starts on.
Context ==
    [rs |-> rs, p_swapchain |-> p_swapchain, gpu |-> gpu, log |-> <<>>,
     rlog |-> <<>>, recreated |-> FALSE, acquired |-> "none",
     presented |-> "none", forced |-> FALSE, status |-> "ok",
     result |-> "none"]

\* What a handler leaves behind: the struct, the pool, the driver, and the
\* process (an Err unwinds to main's unwrap, which ends it).
Returned(c, op, trigger) ==
    /\ rs' = c.rs
    /\ p_swapchain' = c.p_swapchain
    /\ gpu' = c.gpu
    /\ rs_status' = IF c.status = "ok" THEN "running" ELSE c.status
    /\ log' = c.log
    /\ rlog' = c.rlog
    /\ call' = [op |-> op,
                result |-> IF c.status = "ok" THEN c.result ELSE c.status,
                acquired |-> c.acquired,
                presented |-> c.presented,
                forced |-> c.forced,
                trigger |-> IF c.rlog = <<>> THEN "none" ELSE trigger,
                recreated |-> c.recreated,
                slot |-> rs.frame,
                kept_frame |-> c.rs.frame = rs.frame,
                kept_image_index |-> c.rs.image_index = rs.image_index]
    /\ stale' = IF c.recreated THEN FALSE
                ELSE IF c.acquired = "out_of_date" THEN TRUE ELSE stale

\* sys.begin_frame(width, height), with the render loop at `at`: the
\* call returns once its wait has returned.
BeginFrameAt(at, in) ==
    /\ rs_status = "running"
    /\ caller = "render_loop" => pc = at
    /\ in.wait_fails \/ wait_for_fences_returns(gpu, get_in_flight_fence(rs))
    /\ LET c == begin_frame(Context, in, overflow_checks)
       IN /\ Returned(c, "begin_frame", "out_of_date")
          /\ pc' = IF c.status = "ok" /\ c.result = "true" THEN "recording" ELSE "idle"
    /\ UNCHANGED caller
    /\ UNCHANGED <<poolVars, cacheVars, backendVars, idVars, ecsVars>>

\* sys.begin_frame(width, height) as one step.
BeginFrame(in) == BeginFrameAt("idle", in)

\* App::render enters sys.begin_frame: the thread is inside
\* wait_for_fences(.., true, u64::MAX).
CallBeginFrame ==
    /\ rs_status = "running"
    /\ caller = "render_loop"
    /\ pc = "idle"
    /\ pc' = "begin_frame"
    /\ UNCHANGED <<rs, p_swapchain, gpu, rs_status, caller, call, log, rlog, stale>>
    /\ UNCHANGED <<poolVars, cacheVars, backendVars, idVars, ecsVars>>

\* The begin_frame the render loop has entered returns.
BeginFrameReturns(in) == BeginFrameAt("begin_frame", in)

\* rhi.queue_submit(..) of App::render
Submit(fails) ==
    /\ rs_status = "running"
    /\ pc = "recording"
    /\ gpu.pending[get_in_flight_fence(rs)] < MaxPending
    /\ LET c == queue_submit(Context, fails)
       IN Returned(c, "queue_submit", "none")
    /\ pc' = "submitted"
    /\ UNCHANGED caller
    /\ UNCHANGED <<poolVars, cacheVars, backendVars, idVars, ecsVars>>

\* sys.end_frame(recreate_swapchain, width, height)
EndFrame(recreate_flag, in) ==
    /\ rs_status = "running"
    /\ caller = "render_loop" => pc = "submitted"
    /\ LET c == end_frame(Context, recreate_flag, in, overflow_checks)
       IN Returned(c, "end_frame",
                   IF in.present = "suboptimal" /\ recreate_flag THEN "both"
                   ELSE IF recreate_flag THEN "forced" ELSE "suboptimal")
    /\ pc' = "idle"
    /\ UNCHANGED caller
    /\ UNCHANGED <<poolVars, cacheVars, backendVars, idVars, ecsVars>>

\* sys.recreate_swapchain(width, height), called from outside the loop
RecreateSwapchain(ri) ==
    /\ rs_status = "running"
    /\ caller = "any"
    /\ LET c == Then(recreate_swapchain(Context, ri, overflow_checks),
                     LAMBDA x : [x EXCEPT !.result = "ok"])
       IN Returned(c, "recreate_swapchain", "direct")
    /\ UNCHANGED <<caller, pc>>
    /\ UNCHANGED <<poolVars, cacheVars, backendVars, idVars, ecsVars>>

\* app.destroy() of the event loop: between two frames.
Destroy(wait_fails) ==
    /\ rs_status = "running"
    /\ caller = "render_loop" => pc = "idle"
    /\ LET c == destroy(Context, wait_fails, overflow_checks)
       IN Returned(c, "destroy", "none")
    /\ UNCHANGED <<caller, pc>>
    /\ UNCHANGED <<poolVars, cacheVars, backendVars, idVars, ecsVars>>

\* The GPU completes a submission, which signals its fence.
GpuComplete(fence) ==
    /\ gpu.pending[fence] > 0
    /\ gpu' = [gpu EXCEPT !.pending[fence] = @ - 1, !.signaled[fence] = TRUE]
    /\ UNCHANGED <<rs, p_swapchain, rs_status, caller, pc, call, log, rlog, stale>>
    /\ UNCHANGED <<poolVars, cacheVars, backendVars, idVars, ecsVars>>

FrameNext ==
    \/ \E in \in BeginInputs(p_swapchain.items[1].back_buffers) : BeginFrame(in)
    \/ \E fails \in BOOLEAN : Submit(fails)
    \/ \E recreate_flag \in BOOLEAN :
         \E in \in EndInputs(recreate_flag) : EndFrame(recreate_flag, in)
    \/ \E ri \in RecreateInputs : RecreateSwapchain(ri)
    \/ \E wait_fails \in BOOLEAN : Destroy(wait_fails)
    \/ \E fence \in DOMAIN gpu.pending : GpuComplete(fence)

\* App::render under the event loop, with begin_frame in two steps (the
\* call and its return), and the GPU.
FrameLiveNext ==
    \/ CallBeginFrame
    \/ \E in \in BeginInputs(p_swapchain.items[1].back_buffers) : BeginFrameReturns(in)
    \/ \E fails \in BOOLEAN : Submit(fails)
    \/ \E recreate_flag \in BOOLEAN :
         \E in \in EndInputs(recreate_flag) : EndFrame(recreate_flag, in)
    \/ \E wait_fails \in BOOLEAN : Destroy(wait_fails)
    \/ \E fence \in DOMAIN gpu.pending : GpuComplete(fence)

---------------------------------------------------------------------------
(* The backend operations that take handles                                *)

\* Size of the pools of this part (the backend's are 1 to 32).
BackendPoolSize == 1

\* Number of create_* / destroy_* calls explored in one behaviour.
MaxBackendCalls == 3

Kinds == {"fence", "semaphore", "command_buffer", "buffer", "swapchain"}

\* VulkanFence::default() and the like: no handle, a null driver object.
DefaultBackendItem == [handle |-> NoHandle, raw |-> VK_NULL]

\* pool.get(h).is_some(), for one handle and for a slice of handles
Found(p, h) == get(p, h).found

AllFound(p, handles) == \A i \in 1..Len(handles) : Found(p, handles[i])

\* VulkanQueue::submit.  desc.fence is NoHandle for None; an absent
\* semaphore slice is the empty one.  "not_found" is an Err made by
\* .context(..)?, "panic" an unwrap() of None.
VulkanQueue_submit(pools, desc) ==
    IF desc.fence # NoHandle /\ ~Found(pools.fence, desc.fence) THEN "not_found"
    ELSE IF ~AllFound(pools.command_buffer, desc.command_buffer) THEN "panic"
    ELSE IF ~AllFound(pools.semaphore, desc.wait_semaphore) THEN "panic"
    ELSE IF ~AllFound(pools.semaphore, desc.finish_semaphore) THEN "panic"
    ELSE "ok"

\* VulkanQueue::present
VulkanQueue_present(pools, desc) ==
    IF ~Found(pools.swapchain, desc.swapchain) THEN "not_found"
    ELSE IF ~AllFound(pools.semaphore, desc.wait_semaphores) THEN "panic"
    ELSE "ok"

\* VulkanDevice::wait_for_fences and VulkanDevice::reset_fences
VulkanDevice_wait_for_fences(pools, fences) ==
    IF ~AllFound(pools.fence, fences) THEN "not_found" ELSE "ok"

VulkanDevice_reset_fences(pools, fences) ==
    IF ~AllFound(pools.fence, fences) THEN "not_found" ELSE "ok"

\* VulkanRHI::get_device_handle_from_fences: Ok(ret.unwrap()) after the
\* loop panics for an empty slice.
get_device_handle_from_fences(pools, handles) ==
    IF ~AllFound(pools.fence, handles) THEN "not_found"
    ELSE IF handles = <<>> THEN "panic"
    ELSE "ok"

\* VulkanRHI::wait_for_fences: the unwrap() comes after the lookup of
\* get_device_handle_from_fences has passed for every handle.
VulkanRHI_wait_for_fences(pools, handles) ==
    IF get_device_handle_from_fences(pools, handles) # "ok"
    THEN get_device_handle_from_fences(pools, handles)
    ELSE IF ~AllFound(pools.fence, handles) THEN "panic"
    ELSE "ok"

\* VulkanBackend::cmd_bind_vertex_buffers
cmd_bind_vertex_buffers(pools, cb, buffers) ==
    IF ~Found(pools.command_buffer, cb) THEN "not_found"
    ELSE IF ~AllFound(pools.buffer, buffers) THEN "panic"
    ELSE "ok"

NoBackendCall == [op |-> "none", stale |-> FALSE, result |-> "none"]

\* VulkanBackend::new: the pools of define_resource_pool!
BackendStart ==
    /\ bk_pool = [k \in Kinds |-> with_size(BackendPoolSize, DefaultBackendItem)]
    /\ bk_issued = [k \in Kinds |-> {}]
    /\ bk_status = "ok"
    /\ bk_call = NoBackendCall
    /\ bk_n = 0

\* The handles a caller can pass: those create_* returned, freed or not,
\* and Handle::default(), which no pool has allocated.
Passable(kind) == bk_issued[kind] \cup {DefaultHandle}

\* A slice of at most one handle.
Slices(kind) == {<<>>} \cup {<<h>> : h \in Passable(kind)}

\* create_fence, create_semaphore, create_command_buffer, create_buffer,
\* create_swapchain: `let item = pool.malloc(); item.1.init(..)?; Ok(item.0)`
BackendCreate(kind) ==
    /\ bk_status = "ok"
    /\ bk_n < MaxBackendCalls
    /\ LET m == malloc(bk_pool[kind])
       IN /\ bk_pool' = [bk_pool EXCEPT ![kind] = m.pool]
          /\ bk_status' = m.outcome
          /\ bk_issued' = IF m.outcome = "ok"
                          THEN [bk_issued EXCEPT ![kind] = @ \cup {m.handle}]
                          ELSE bk_issued
          /\ bk_call' = [op |-> "create_" \o kind, stale |-> FALSE,
                         result |-> IF m.outcome = "ok" THEN "ok" ELSE "panic"]
    /\ bk_n' = bk_n + 1
    /\ UNCHANGED <<poolVars, cacheVars, frameVars, idVars, ecsVars>>

\* destroy_fence, destroy_semaphore, ...:
\* `if let Some(x) = pool.get_mut(handle) { x.destroy(..); pool.free(handle); } Ok(())`
BackendDestroy(kind, h) ==
    /\ bk_status = "ok"
    /\ bk_n < MaxBackendCalls
    /\ LET p        == bk_pool[kind]
           hit      == Found(p, h)
           overflow == overflow_checks /\ free_overflows(p, h)
       IN /\ bk_pool' = [bk_pool EXCEPT ![kind] =
                            IF ~hit THEN p
                            ELSE IF overflow THEN free_until_overflow(p, h)
                            ELSE free(p, h)]
          /\ bk_status' = IF hit /\ overflow THEN "panic_overflow" ELSE "ok"
          /\ bk_call' = [op |-> "destroy_" \o kind, stale |-> ~hit,
                         result |-> IF ~hit THEN "noop"
                                    ELSE IF overflow THEN "panic" ELSE "ok"]
    /\ bk_n' = bk_n + 1
    /\ UNCHANGED bk_issued
    /\ UNCHANGED <<poolVars, cacheVars, frameVars, idVars, ecsVars>>

\* A backend call that looks its handles up and changes no pool.
BackendLookup(op, invalid, result) ==
    /\ bk_status = "ok"
    /\ bk_call' = [op |-> op, stale |-> invalid, result |-> result]
    /\ bk_status' = IF result = "panic" THEN "panic" ELSE "ok"
    /\ UNCHANGED <<bk_pool, bk_issued, bk_n>>
    /\ UNCHANGED <<poolVars, cacheVars, frameVars, idVars, ecsVars>>

\* backend.queue_submit(queue, &desc), for a queue handle from get_queue
QueueSubmit(desc) ==
    BackendLookup("queue_submit",
                  \/ desc.fence # NoHandle /\ ~Found(bk_pool.fence, desc.fence)
                  \/ ~AllFound(bk_pool.command_buffer, desc.command_buffer)
                  \/ ~AllFound(bk_pool.semaphore, desc.wait_semaphore)
                  \/ ~AllFound(bk_pool.semaphore, desc.finish_semaphore),
                  VulkanQueue_submit(bk_pool, desc))

\* backend.queue_present(queue, &desc)
QueuePresent(desc) ==
    BackendLookup("queue_present",
                  \/ ~Found(bk_pool.swapchain, desc.swapchain)
                  \/ ~AllFound(bk_pool.semaphore, desc.wait_semaphores),
                  VulkanQueue_present(bk_pool, desc))

\* backend.wait_for_fences(fences, ..) / backend.reset_fences(fences)
WaitForFences(fences) ==
    BackendLookup("wait_for_fences", ~AllFound(bk_pool.fence, fences),
                  VulkanDevice_wait_for_fences(bk_pool, fences))

ResetFences(fences) ==
    BackendLookup("reset_fences", ~AllFound(bk_pool.fence, fences),
                  VulkanDevice_reset_fences(bk_pool, fences))

\* rhi.wait_for_fences(handles, ..) of luxseed-rhi
RhiWaitForFences(handles) ==
    BackendLookup("rhi_wait_for_fences", ~AllFound(bk_pool.fence, handles),
                  VulkanRHI_wait_for_fences(bk_pool, handles))

\* backend.cmd_bind_vertex_buffers(cb, 0, buffers, offsets)
CmdBindVertexBuffers(cb, buffers) ==
    BackendLookup("cmd_bind_vertex_buffers",
                  \/ ~Found(bk_pool.command_buffer, cb)
                  \/ ~AllFound(bk_pool.buffer, buffers),
                  cmd_bind_vertex_buffers(bk_pool, cb, buffers))

SubmitDescs ==
    [ fence            : Passable("fence") \cup {NoHandle},
      command_buffer   : Slices("command_buffer"),
      wait_semaphore   : Slices("semaphore"),
      finish_semaphore : Slices("semaphore") ]

PresentDescs ==
    [ swapchain : Passable("swapchain"), wait_semaphores : Slices("semaphore") ]

BackendNext ==
    \/ \E kind \in Kinds : BackendCreate(kind)
    \/ \E kind \in Kinds : \E h \in Passable(kind) : BackendDestroy(kind, h)
    \/ \E desc \in SubmitDescs : QueueSubmit(desc)
    \/ \E desc \in PresentDescs : QueuePresent(desc)
    \/ \E fences \in Slices("fence") : WaitForFences(fences)
    \/ \E fences \in Slices("fence") : ResetFences(fences)
    \/ \E handles \in Slices("fence") : RhiWaitForFences(handles)
    \/ \E cb \in Passable("command_buffer") :
         \E buffers \in Slices("buffer") : CmdBindVertexBuffers(cb, buffers)

---------------------------------------------------------------------------
(* define_atomic_id!: a static counter shared by the threads of a process  *)

\* Stands for u32::MAX: the counter of define_atomic_id!, and the ids,
\* generations and len of the entity allocator, are u32.  Scaled down so
\* that the counter's wrap-around is reachable.
U32_MAX == 3

\* Threads that call new(); thread 1 is the main thread.
MaxThreads == 3

\* Calls of new() explored after the counter has gone through all its values.
ExtraNewCalls == 2

Threads == 1..MaxThreads

MainThread == 1

\* core::num::NonZeroU32::new
NonZeroU32_new(n) == IF n = 0 THEN [some |-> FALSE, value |-> 0]
                     ELSE [some |-> TRUE, value |-> n]

\* AtomicU32::fetch_add: one atomic step, wrapping around on overflow.
fetch_add(counter, n) ==
    [previous |-> counter, counter |-> (counter + n) % (U32_MAX + 1)]

\* `static COUNTER: AtomicU32 = AtomicU32::new(1)`, no thread inside new()
IdStart ==
    /\ COUNTER = 1
    /\ id_pc = [t \in Threads |-> "idle"]
    /\ id_local = [t \in Threads |-> 0]
    /\ id_status = "running"
    /\ id_returned = [id \in 1..U32_MAX |-> 0]
    /\ id_calls = 0

\* new(), first half: `let counter = COUNTER.fetch_add(1, Ordering::Relaxed)`
FetchAdd(t) ==
    /\ id_status = "running"
    /\ id_pc[t] = "idle"
    /\ id_calls < U32_MAX + 1 + ExtraNewCalls
    /\ LET f == fetch_add(COUNTER, 1)
       IN /\ COUNTER' = f.counter
          /\ id_local' = [id_local EXCEPT ![t] = f.previous]
    /\ id_pc' = [id_pc EXCEPT ![t] = "fetched"]
    /\ id_calls' = id_calls + 1
    /\ UNCHANGED <<id_status, id_returned>>
    /\ UNCHANGED <<poolVars, cacheVars, frameVars, backendVars, ecsVars>>

\* new(), second half: Self(NonZeroU32::new(counter).unwrap_or_else(|| panic!(..))).
\* A panic unwinds the calling thread; the process ends with it when that
\* is the main thread, and goes on otherwise.
NewReturns(t) ==
    /\ id_status = "running"
    /\ id_pc[t] = "fetched"
    /\ LET id == NonZeroU32_new(id_local[t])
       IN IF id.some
          THEN /\ id_returned' = [id_returned EXCEPT ![id.value] = @ + 1]
               /\ id_pc' = [id_pc EXCEPT ![t] = "idle"]
               /\ UNCHANGED id_status
          ELSE /\ id_pc' = [id_pc EXCEPT ![t] = "panicked"]
               /\ id_status' = IF t = MainThread THEN "panic" ELSE "running"
               /\ UNCHANGED id_returned
    /\ UNCHANGED <<COUNTER, id_local, id_calls>>
    /\ UNCHANGED <<poolVars, cacheVars, frameVars, backendVars, ecsVars>>

IdNext ==
    \/ \E t \in Threads : FetchAdd(t)
    \/ \E t \in Threads : NewReturns(t)

---------------------------------------------------------------------------
(* Entities: the entity allocator of luxseed-ecs                           *)

\* Total number of successful free_entity calls explored in one behaviour.
MaxEntityFrees == 4

Entity(id, generation) == [id |-> id, generation |-> generation]

NoEntity == Entity(-1, 0)

\* EntityMeta::EMPTY: generation 1, location (archetype 0, index u32::MAX)
EMPTY == [generation |-> 1,
          location   |-> [archetype |-> 0, index |-> U32_MAX]]

\* Entities::default()
DefaultEntities ==
    [metas |-> <<>>, pending |-> <<>>, free_cursor |-> 0, len |-> 0]

\* Entities::needs_flush
needs_flush(e) == e.free_cursor # Len(e.pending)

\* Entities::len
len(e) == e.len

\* A mutant of alloc_entity: a new id is made although freed ids wait.
alloc_entity_never_reuses(e, checked) ==
    [outcome |-> "ok",
     entity  |-> Entity(Len(e.metas), 1),
     e       |-> [e EXCEPT !.len = @ + 1, !.metas = Append(@, EMPTY)]]

\* Entities::alloc_entity.  checked: the build has debug assertions and
\* overflow checks (cargo's dev profile).  The outcome is "ok" or the
\* panic that ends the call.
alloc_entity(e, checked) ==
    LET counted == [e EXCEPT !.len = (@ + 1) % (U32_MAX + 1)]
        id      == e.pending[Len(e.pending)]
        rest    == SubSeq(e.pending, 1, Len(e.pending) - 1)
    IN IF checked /\ needs_flush(e)
       THEN [outcome |-> "panic_not_flushed", entity |-> NoEntity, e |-> e]
       ELSE IF checked /\ e.len = U32_MAX
       THEN [outcome |-> "panic_overflow", entity |-> NoEntity, e |-> e]
       ELSE IF e.pending # <<>>
       THEN [outcome |-> "ok",
             entity  |-> Entity(id, e.metas[id + 1].generation),
             e       |-> [counted EXCEPT !.pending = rest,
                                        !.free_cursor = Len(rest)]]
       ELSE IF Len(e.metas) > U32_MAX
       THEN [outcome |-> "panic_too_many_entities", entity |-> NoEntity,
             e |-> counted]
       ELSE [outcome |-> "ok",
             entity  |-> Entity(Len(e.metas), 1),
             e       |-> [counted EXCEPT !.metas = Append(@, EMPTY)]]

\* A mutant of next_generation: the generation is not changed.
same_generation(g) == g

\* `NonZeroU32::new(u32::from(g).wrapping_add(1)).unwrap_or_else(|| NonZeroU32::new(1).unwrap())`
next_generation(g) ==
    LET n == NonZeroU32_new((g + 1) % (U32_MAX + 1))
    IN IF n.some THEN n.value ELSE 1

\* Entities::free_entity; the outcome is "ok" (with the old location),
\* "EntityNotFound" or a panic.
free_entity(e, entity, checked) ==
    LET meta == e.metas[entity.id + 1]
        pend == Append(e.pending, entity.id)
    IN IF checked /\ needs_flush(e)
       THEN [outcome |-> "panic_not_flushed", old |-> EMPTY.location, e |-> e]
       ELSE IF entity.id >= Len(e.metas)
       THEN [outcome |-> "EntityNotFound", old |-> EMPTY.location, e |-> e]
       ELSE IF meta.generation # entity.generation \/ meta.location.index = U32_MAX
       THEN [outcome |-> "EntityNotFound", old |-> EMPTY.location, e |-> e]
       ELSE IF checked /\ e.len = 0
       THEN [outcome |-> "panic_overflow", old |-> meta.location,
             e |-> [e EXCEPT !.metas[entity.id + 1] =
                                [generation |-> next_generation(meta.generation),
                                 location   |-> EMPTY.location],
                             !.pending = pend, !.free_cursor = Len(pend)]]
       ELSE [outcome |-> "ok", old |-> meta.location,
             e |-> [e EXCEPT !.metas[entity.id + 1] =
                                [generation |-> next_generation(meta.generation),
                                 location   |-> EMPTY.location],
                             !.pending = pend, !.free_cursor = Len(pend),
                             !.len = (@ - 1) % (U32_MAX + 1)]]

NoEcsCall == [op |-> "none", entity |-> NoEntity, outcome |-> "none"]

\* Number of threads that hold a shared reference to the Entities.
MaxReserveThreads == 2

\* Number of successful free_entity calls explored in one behaviour with
\* reservations.
MaxReserveFrees == 2

\* A thread that is not inside reserve_entity.
Idle == [busy |-> FALSE, n |-> 0]

\* No flush yet.
NoFlush == [inits |-> <<>>, reserved |-> <<>>, outcome |-> "none"]

\* What the init closure does with the `&mut EntityLocation` it is given:
\* it gives the entity a place.
init(location) == [location EXCEPT !.index = 0]

\* `self.free_cursor.fetch_sub(1, Ordering::Relaxed)`: the value before.
fetch_sub(e) == [n |-> e.free_cursor, e |-> [e EXCEPT !.free_cursor = @ - 1]]

\* Entities::reserve_entity after the fetch_sub that returned n.
reserve_entity(e, n) ==
    IF n > 0
    THEN LET id == e.pending[n]
         IN [outcome |-> "ok", entity |-> Entity(id, e.metas[id + 1].generation)]
    ELSE IF Len(e.metas) - n > U32_MAX
    THEN [outcome |-> "panic_too_many_entities", entity |-> NoEntity]
    ELSE [outcome |-> "ok", entity |-> Entity(Len(e.metas) - n, 1)]

\* metas with init applied to the location of each id of ids.
InitAll(metas, ids) ==
    [i \in 1..Len(metas) |->
        IF \E j \in 1..Len(ids) : ids[j] = i - 1
        THEN [metas[i] EXCEPT !.location = init(@)]
        ELSE metas[i]]

\* Entities::flush_reserved_entities.  inits: the ids init was called
\* with, in order.  The outcome is "ok" or the panic that ends the call,
\* with the state it leaves.
flush_reserved_entities(e, checked) ==
    LET fc       == e.free_cursor
        old_len  == Len(e.metas)
        more     == IF fc < 0 THEN -fc ELSE 0
        grown    == e.metas \o [j \in 1..more |-> EMPTY]
        new_ids  == [j \in 1..more |-> (old_len + j - 1) % (U32_MAX + 1)]
        new_slots == [j \in 1..more |-> old_len + j - 1]
        add1     == more % (U32_MAX + 1)
        len1     == (e.len + add1) % (U32_MAX + 1)
        new_fc   == IF fc < 0 THEN 0 ELSE fc
        drained  == SubSeq(e.pending, new_fc + 1, Len(e.pending))
        add2     == (Len(e.pending) - new_fc) % (U32_MAX + 1)
        e1       == IF fc < 0
                    THEN [e EXCEPT !.metas = InitAll(grown, new_slots),
                                   !.len = len1, !.free_cursor = 0]
                    ELSE e
    IN IF fc < 0 /\ checked /\ e.len + add1 > U32_MAX
       THEN [outcome |-> "panic_overflow", inits |-> <<>>,
             e |-> [e EXCEPT !.metas = grown]]
       ELSE IF new_fc > Len(e.pending)
       THEN [outcome |-> "panic_range", inits |-> new_ids, e |-> e1]
       ELSE IF checked /\ e1.len + add2 > U32_MAX
       THEN [outcome |-> "panic_overflow", inits |-> new_ids, e |-> e1]
       ELSE [outcome |-> "ok", inits |-> new_ids \o drained,
             e |-> [e1 EXCEPT !.len = (@ + add2) % (U32_MAX + 1),
                              !.pending = SubSeq(e.pending, 1, new_fc),
                              !.metas = InitAll(e1.metas, drained)]]

\* Entities::default() and empty histories
EcsStart ==
    /\ entities = DefaultEntities
    /\ ecs_status = "ok"
    /\ ecs_issued = {}
    /\ ecs_live = {}
    /\ ecs_allocs = 0
    /\ ecs_frees = 0
    /\ ecs_freed = [id \in 0..U32_MAX |-> 0]
    /\ ecs_last = NoEcsCall
    /\ reserving = [t \in 1..MaxReserveThreads |-> Idle]
    /\ ecs_reserved = <<>>
    /\ ecs_flush = NoFlush

\* e.alloc_entity()
AllocEntity ==
    /\ ecs_status = "ok"
    /\ LET r == alloc_entity(entities, overflow_checks)
       IN /\ entities' = r.e
          /\ ecs_status' = r.outcome
          /\ ecs_last' = [op |-> "alloc_entity", entity |-> r.entity,
                          outcome |-> r.outcome]
          /\ IF r.outcome = "ok"
             THEN /\ ecs_issued' = ecs_issued \cup {r.entity}
                  /\ ecs_live' = ecs_live \cup {r.entity}
                  /\ ecs_allocs' = ecs_allocs + 1
             ELSE UNCHANGED <<ecs_issued, ecs_live, ecs_allocs>>
    /\ UNCHANGED <<ecs_frees, ecs_freed, reserving, ecs_reserved, ecs_flush>>
    /\ UNCHANGED <<poolVars, cacheVars, frameVars, backendVars, idVars>>

\* The caller gives an allocated entity its place in an archetype:
\* `e.metas[entity.id as usize].location.index = 0` of tests::alloc_and_free,
\* the assignment in World::alloc_storage.
SetLocation(entity) ==
    /\ ecs_status = "ok"
    /\ entity \in ecs_live
    /\ entities.metas[entity.id + 1].location.index = U32_MAX
    /\ entities' = [entities EXCEPT !.metas[entity.id + 1].location.index = 0]
    /\ ecs_last' = [op |-> "set_location", entity |-> entity, outcome |-> "ok"]
    /\ UNCHANGED <<ecs_status, ecs_issued, ecs_live, ecs_allocs, ecs_frees, ecs_freed>>
    /\ UNCHANGED <<reserving, ecs_reserved, ecs_flush>>
    /\ UNCHANGED <<poolVars, cacheVars, frameVars, backendVars, idVars>>

\* e.free_entity(entity), for any id and generation (the test frees ids
\* that are not in use as well)
FreeEntity(entity) ==
    /\ ecs_status = "ok"
    /\ ecs_frees < MaxEntityFrees
    /\ LET r == free_entity(entities, entity, overflow_checks)
       IN /\ entities' = r.e
          /\ ecs_status' = IF r.outcome \in {"ok", "EntityNotFound"} THEN "ok"
                           ELSE r.outcome
          /\ ecs_last' = [op |-> "free_entity", entity |-> entity,
                          outcome |-> r.outcome]
          /\ IF r.outcome = "ok"
             THEN /\ ecs_live' = {x \in ecs_live : x.id # entity.id}
                  /\ ecs_frees' = ecs_frees + 1
                  /\ ecs_freed' = [ecs_freed EXCEPT ![entity.id] = @ + 1]
             ELSE UNCHANGED <<ecs_live, ecs_frees, ecs_freed>>
    /\ UNCHANGED <<ecs_issued, ecs_allocs, reserving, ecs_reserved, ecs_flush>>
    /\ UNCHANGED <<poolVars, cacheVars, frameVars, backendVars, idVars>>

\* No thread is inside reserve_entity: what a `&mut self` call requires.
NoSharedBorrow == \A t \in DOMAIN reserving : ~reserving[t].busy

\* reserve_entity, first half: thread t does the fetch_sub.
ReserveFetch(t) ==
    /\ ecs_status = "ok"
    /\ ~reserving[t].busy
    /\ LET r == fetch_sub(entities)
       IN /\ entities' = r.e
          /\ reserving' = [reserving EXCEPT ![t] = [busy |-> TRUE, n |-> r.n]]
    /\ UNCHANGED <<ecs_status, ecs_issued, ecs_live, ecs_allocs, ecs_frees,
                   ecs_freed, ecs_last, ecs_reserved, ecs_flush>>
    /\ UNCHANGED <<poolVars, cacheVars, frameVars, backendVars, idVars>>

\* reserve_entity, second half: thread t reads pending and metas and returns.
ReserveReturn(t) ==
    /\ ecs_status = "ok"
    /\ reserving[t].busy
    /\ LET r == reserve_entity(entities, reserving[t].n)
       IN /\ ecs_status' = r.outcome
          /\ ecs_last' = [op |-> "reserve_entity", entity |-> r.entity,
                          outcome |-> r.outcome]
          /\ ecs_reserved' = IF r.outcome = "ok"
                             THEN Append(ecs_reserved, r.entity) ELSE ecs_reserved
    /\ reserving' = [reserving EXCEPT ![t] = Idle]
    /\ UNCHANGED <<entities, ecs_issued, ecs_live, ecs_allocs, ecs_frees,
                   ecs_freed, ecs_flush>>
    /\ UNCHANGED <<poolVars, cacheVars, frameVars, backendVars, idVars>>

\* e.flush_reserved_entities(init)
FlushReservedEntities ==
    /\ ecs_status = "ok"
    /\ NoSharedBorrow
    /\ LET r == flush_reserved_entities(entities, overflow_checks)
           now == {ecs_reserved[j] : j \in 1..Len(ecs_reserved)}
       IN /\ entities' = r.e
          /\ ecs_status' = r.outcome
          /\ ecs_last' = [op |-> "flush_reserved_entities", entity |-> NoEntity,
                          outcome |-> r.outcome]
          /\ ecs_flush' = [inits |-> r.inits, reserved |-> ecs_reserved,
                           outcome |-> r.outcome]
          /\ ecs_issued' = IF r.outcome = "ok" THEN ecs_issued \cup now
                           ELSE ecs_issued
          /\ ecs_live' = IF r.outcome = "ok" THEN ecs_live \cup now ELSE ecs_live
    /\ ecs_reserved' = <<>>
    /\ UNCHANGED <<ecs_allocs, ecs_frees, ecs_freed, reserving>>
    /\ UNCHANGED <<poolVars, cacheVars, frameVars, backendVars, idVars>>

\* The `&mut self` calls as their documentation asks for them ("Make sure
\* `flush_reserved_entities` has been called before if you reserve
\* entity"), and as World::spawn_entity and World::destroy make them.
Flushed == NoSharedBorrow /\ ~needs_flush(entities)

ReserveNext ==
    \/ Flushed /\ AllocEntity
    \/ \E entity \in ecs_live : SetLocation(entity)
    \/ \E entity \in ecs_issued :
          Flushed /\ ecs_frees < MaxReserveFrees /\ FreeEntity(entity)
    \/ \E t \in DOMAIN reserving : ReserveFetch(t)
    \/ \E t \in DOMAIN reserving : ReserveReturn(t)
    \/ FlushReservedEntities

\* The entities a caller passes: those alloc_entity has returned, live or
\* freed, and one whose id has not been allocated.
EntityInputs ==
    ecs_issued \cup {Entity(i, 1) : i \in {Len(entities.metas)} \cap 0..U32_MAX}

EcsNext ==
    \/ AllocEntity
    \/ \E entity \in ecs_live : SetLocation(entity)
    \/ \E entity \in EntityInputs : FreeEntity(entity)

---------------------------------------------------------------------------
(* The backend's pools under RenderSystem::create and recreate_swapchain   *)

\* The pools that a swapchain, its images, their views, the framebuffers
\* and the single-time command buffer take their slots from.
SwapchainKinds == {"swapchain", "image", "image_view", "framebuffer", "command_buffer"}

\* define_resource_pool!: the initial size of the image, image_view,
\* framebuffer and command_buffer pools, scaled down.
ResourcePoolSize == 2

\* Number of recreate_swapchain calls explored.
MaxRecreations == 5

\* VulkanImage::default(): no handle, no views.  `views` maps a view
\* description to the handle of the view made for it.
DefaultVulkanImage == [handle |-> NoHandle, views |-> {}]

\* VulkanSwapchain::default(), with the back buffers as image handles.
DefaultVulkanSwapchainImages ==
    [handle |-> NoHandle, back_buffers |-> <<>>, image_count |-> 0]

\* VulkanBackend::new: the five pools.
ResourcePools ==
    [k \in SwapchainKinds |->
        IF k = "swapchain"
        THEN with_size(SwapchainPoolSize, DefaultVulkanSwapchainImages)
        ELSE IF k = "image"
        THEN with_size(ResourcePoolSize, DefaultVulkanImage)
        ELSE with_size(ResourcePoolSize, DefaultBackendItem)]

\* `let v = x;`: x is computed once and F goes on with its value.
Let(x, F(_)) == CHOOSE r \in {F(v) : v \in {x}} : TRUE

\* `let v = x?;`: F goes on with the value of x unless x ended in an Err
\* or a panic.
AndThen(x, F(_)) == Let(x, LAMBDA v : IF v.status = "ok" THEN F(v) ELSE v)

\* `?` on an Err.
ReturnErr(c) == [c EXCEPT !.status = "error"]

\* self.res_pool.<kind>.malloc(); the handle is left in c.h
TakeSlot(c, kind) ==
    Let(malloc_to(c.pools[kind], GrowLimit),
        LAMBDA r : IF r.outcome = "ok"
                   THEN [c EXCEPT !.pools[kind] = r.pool, !.h = r.handle]
                   ELSE [c EXCEPT !.pools[kind] = r.pool, !.status = "panic"])

\* self.res_pool.<kind>.free(handle)
GiveSlot(c, kind, h) ==
    LET p == c.pools[kind]
    IN IF c.checked /\ free_overflows(p, h)
       THEN [c EXCEPT !.pools[kind] = free_until_overflow(p, h),
                      !.status = "panic"]
       ELSE [c EXCEPT !.pools[kind] = free(p, h)]

\* for (_, handle) in texture.views.drain() { .. image_view.free(handle) }
\* A view that is not found is an Err in destroy_swapchain and a panic
\* (unwrap) in destroy_image.
RECURSIVE DrainViews(_, _, _)
DrainViews(c, views, missing) ==
    IF views = {} \/ c.status # "ok" THEN c
    ELSE LET e == CHOOSE x \in views : TRUE
         IN IF ~get_mut(c.pools.image_view, e.view).found
            THEN [c EXCEPT !.status = missing]
            ELSE AndThen(GiveSlot(c, "image_view", e.view),
                         LAMBDA v : DrainViews(v, views \ {e}, missing))

\* The views of an image, and the image after views.drain().
ViewsOf(c, image) == c.pools.image.items[image.index + 1].views

Drained(c, image) == [c EXCEPT !.pools.image.items[image.index + 1].views = {}]

\* VulkanBackend::destroy_framebuffer
VulkanBackend_destroy_framebuffer(c, fb) ==
    IF get_mut(c.pools.framebuffer, fb).found
    THEN GiveSlot(c, "framebuffer", fb)
    ELSE c

\* VulkanBackend::destroy_image
VulkanBackend_destroy_image(c, image) ==
    IF ~get_mut(c.pools.image, image).found THEN c
    ELSE AndThen(DrainViews(Drained(c, image), ViewsOf(c, image), "panic"),
                 LAMBDA v : GiveSlot(v, "image", image))

\* The loop of destroy_swapchain over swapchain.back_buffers, from
\* element k on.
RECURSIVE FreeBackBuffers(_, _, _)
FreeBackBuffers(c, back_buffers, k) ==
    IF k > Len(back_buffers) \/ c.status # "ok" THEN c
    ELSE LET image == back_buffers[k]
         IN IF ~get_mut(c.pools.image, image).found THEN ReturnErr(c)
            ELSE AndThen(
                   AndThen(DrainViews(Drained(c, image), ViewsOf(c, image), "error"),
                           LAMBDA v : GiveSlot(v, "image", image)),
                   LAMBDA v : FreeBackBuffers(v, back_buffers, k + 1))

\* The same loop in a mutant of destroy_swapchain: the images are
\* freed, their views are not.
RECURSIVE FreeBackBuffersOnly(_, _, _)
FreeBackBuffersOnly(c, back_buffers, k) ==
    IF k > Len(back_buffers) \/ c.status # "ok" THEN c
    ELSE LET image == back_buffers[k]
         IN IF ~get_mut(c.pools.image, image).found THEN ReturnErr(c)
            ELSE AndThen(GiveSlot(Drained(c, image), "image", image),
                         LAMBDA v : FreeBackBuffersOnly(v, back_buffers, k + 1))

\* swapchain.destroy() and the free of the swapchain's slot.
DestroyAndFree(c, swapchain) ==
    GiveSlot([c EXCEPT !.pools.swapchain.items[swapchain.index + 1].back_buffers = <<>>,
                       !.pools.swapchain.items[swapchain.index + 1].image_count = 0],
             "swapchain", swapchain)

\* A mutant of destroy_swapchain: the views of the back buffers are
\* forgotten and not freed.
VulkanBackend_destroy_swapchain_keeps_views(c, swapchain) ==
    IF ~get_mut(c.pools.swapchain, swapchain).found THEN c
    ELSE AndThen(FreeBackBuffersOnly(
                     c, c.pools.swapchain.items[swapchain.index + 1].back_buffers, 1),
                 LAMBDA v : DestroyAndFree(v, swapchain))

\* VulkanBackend::destroy_swapchain
VulkanBackend_destroy_swapchain(c, swapchain) ==
    IF ~get_mut(c.pools.swapchain, swapchain).found THEN c
    ELSE AndThen(FreeBackBuffers(
                     c, c.pools.swapchain.items[swapchain.index + 1].back_buffers, 1),
                 LAMBDA v : DestroyAndFree(v, swapchain))

\* The loop of VulkanSwapchain::init over raw_images: one image slot per
\* image of the driver, its views cleared; the handles are collected in
\* c.images.
RECURSIVE TakeImages(_, _)
TakeImages(c, count) ==
    IF count = 0 \/ c.status # "ok" THEN c
    ELSE AndThen(TakeSlot(c, "image"),
                 LAMBDA v : TakeImages(
                     [v EXCEPT !.pools.image.items[v.h.index + 1].views = {},
                               !.images = Append(@, v.h)],
                     count - 1))

\* VulkanBackend::create_swapchain with VulkanSwapchain::init: the driver
\* makes `images` images; `fails` is an Err of the driver's
\* create_swapchain.  The new handle is left in c.h
VulkanBackend_create_swapchain(c, image_count, images, fails) ==
    AndThen(TakeSlot(c, "swapchain"),
            LAMBDA v :
              IF fails THEN ReturnErr(v)
              ELSE AndThen(TakeImages([v EXCEPT !.images = <<>>], images),
                     LAMBDA w :
                       [w EXCEPT !.pools.swapchain.items[v.h.index + 1].back_buffers = w.images,
                                 !.pools.swapchain.items[v.h.index + 1].image_count = image_count,
                                 !.h = v.h]))

\* VulkanBackend::create_image: `fails` is an Err of init.
VulkanBackend_create_image(c, fails) ==
    AndThen(TakeSlot(c, "image"),
            LAMBDA v : IF fails THEN ReturnErr(v) ELSE v)

\* VulkanBackend::create_image_view with VulkanImage::get_or_create_view:
\* the view made before for this description, or a new one.
VulkanBackend_create_image_view(c, texture, desc, fails) ==
    IF ~get_mut(c.pools.image, texture).found THEN ReturnErr(c)
    ELSE IF \E e \in ViewsOf(c, texture) : e.desc = desc
    THEN [c EXCEPT !.h = (CHOOSE e \in ViewsOf(c, texture) : e.desc = desc).view]
    ELSE AndThen(TakeSlot(c, "image_view"),
                 LAMBDA v :
                   IF fails THEN ReturnErr(v)
                   ELSE [v EXCEPT !.pools.image.items[texture.index + 1].views =
                                      @ \cup {[desc |-> desc, view |-> v.h]}])

\* VulkanBackend::create_framebuffer, for a render pass that is found:
\* `fails` is an Err of from_create_desc or of the device's cache.
VulkanBackend_create_framebuffer(c, fails) ==
    AndThen(TakeSlot(c, "framebuffer"),
            LAMBDA v : IF fails THEN ReturnErr(v) ELSE v)

\* create_depth: the depth image and its view, left in c.depth_image
\* and c.depth_image_view
CreateDepth(c, fails) ==
    AndThen(VulkanBackend_create_image(c, fails),
            LAMBDA v :
              AndThen(VulkanBackend_create_image_view(v, v.h, "depth", FALSE),
                      LAMBDA w : [w EXCEPT !.depth_image = v.h,
                                           !.depth_image_view = w.h]))

\* transition_image_layout between begin_single_time_commands and
\* end_single_time_commands: a command buffer is created, recorded,
\* submitted and destroyed; `fails` is an Err of queue_submit.
TransitionImageLayout(c, fails) ==
    AndThen(TakeSlot(c, "command_buffer"),
            LAMBDA v :
              IF fails THEN ReturnErr(v)
              ELSE IF get_mut(v.pools.command_buffer, v.h).found
              THEN GiveSlot(v, "command_buffer", v.h)
              ELSE v)

\* The loop `for i in 0..max_frames_in_flight` of create and of
\* recreate_swapchain, from iteration i on: the back buffer, its view,
\* the framebuffer.
RECURSIVE CreateFramebuffers(_, _, _)
CreateFramebuffers(c, ri, i) ==
    IF i >= c.rs.max_frames_in_flight \/ c.status # "ok" THEN c
    ELSE IF ~get(c.pools.swapchain, c.rs.swapchain).found THEN ReturnErr(c)
    ELSE IF i >= Len(c.pools.swapchain.items[c.rs.swapchain.index + 1].back_buffers)
    THEN [c EXCEPT !.status = "panic"]
    ELSE AndThen(
           VulkanBackend_create_image_view(
               c, c.pools.swapchain.items[c.rs.swapchain.index + 1].back_buffers[i + 1],
               "color", ri.fail_at = "create_image_view" /\ ri.fail_iter = i),
           LAMBDA v :
             AndThen(
               VulkanBackend_create_framebuffer(
                   v, ri.fail_at = "create_framebuffer" /\ ri.fail_iter = i),
               LAMBDA w :
                 CreateFramebuffers(
                   [w EXCEPT !.rs.swapchain_framebuffers = Append(@, w.h)],
                   ri, i + 1)))

\* The loop of cleanup_swapchain over swapchain_framebuffers, from
\* element k on.
RECURSIVE DestroyFramebuffers(_, _)
DestroyFramebuffers(c, k) ==
    IF k > Len(c.rs.swapchain_framebuffers) \/ c.status # "ok" THEN c
    ELSE AndThen(
           VulkanBackend_destroy_framebuffer(c, c.rs.swapchain_framebuffers[k]),
           LAMBDA v : DestroyFramebuffers(v, k + 1))

\* RenderSystem::cleanup_swapchain
RenderSystem_cleanup_swapchain(c) ==
    AndThen(DestroyFramebuffers(c, 1),
            LAMBDA v :
              AndThen(VulkanBackend_destroy_image(v, v.rs.depth_image),
                      LAMBDA w : VulkanBackend_destroy_swapchain(w, w.rs.swapchain)))

\* What follows the cleanup in recreate_swapchain, and the swapchain
\* creation in create: the swapchain, the depth image, its layout, the
\* framebuffers.
BuildSwapchain(c, ri) ==
    AndThen(
      VulkanBackend_create_swapchain(c, c.rs.max_frames_in_flight, ri.new_images,
                                     ri.fail_at = "create_swapchain"),
      LAMBDA c1 :
        AndThen(
          CreateDepth([c1 EXCEPT !.rs.swapchain = c1.h],
                      ri.fail_at = "create_depth"),
          LAMBDA c2 :
            AndThen(
              TransitionImageLayout(
                  [c2 EXCEPT !.rs.depth_image = c2.depth_image,
                             !.rs.depth_image_view = c2.depth_image_view],
                  ri.fail_at = "transition_image_layout"),
              LAMBDA c3 :
                CreateFramebuffers(
                    [c3 EXCEPT !.rs.swapchain_framebuffers = <<>>], ri, 0))))

\* RenderSystem::recreate_swapchain
RenderSystem_recreate_swapchain(c, ri) ==
    IF ri.fail_at = "device_wait_idle" THEN ReturnErr(c)
    ELSE AndThen(RenderSystem_cleanup_swapchain(c),
                 LAMBDA v : BuildSwapchain(v, ri))

\* The context a call of the RenderSystem starts on.
PoolsContext(pools, fields, checked) ==
    [ pools |-> pools, rs |-> fields, status |-> "ok", h |-> NoHandle,
      images |-> <<>>, depth_image |-> NoHandle, depth_image_view |-> NoHandle,
      checked |-> checked ]

\* RenderSystem::create in which no call fails, for a swapchain with
\* image_count n for which the driver made `images` images.
RenderSystem_create(n, images) ==
    BuildSwapchain(
        PoolsContext(ResourcePools,
                     [ swapchain              |-> NoHandle,
                       swapchain_framebuffers |-> <<>>,
                       max_frames_in_flight   |-> n,
                       depth_image            |-> NoHandle,
                       depth_image_view       |-> NoHandle ],
                     FALSE),
        [fail_at |-> "none", fail_iter |-> 0, new_images |-> images])

\* The back buffers of the RenderSystem's swapchain in a set of pools.
BackBuffersIn(pools, fields) ==
    pools.swapchain.items[fields.swapchain.index + 1].back_buffers

\* The backend after new() and RenderSystem::create.
OccupancyStart(n, images) ==
    \E c \in {RenderSystem_create(n, images)} :
       /\ bk_pool = c.pools
       /\ bk_issued = [k \in SwapchainKinds |-> {}]
       /\ bk_status = "ok"
       /\ bk_call = [op |-> "create", stale |-> FALSE, result |-> "ok",
                     old_images |-> 0, new_images |-> images]
       /\ bk_n = 0
       /\ caller = "any"
       /\ p_swapchain = c.pools.swapchain
       /\ rs = c.rs
       /\ gpu = [signaled |-> <<>>, pending |-> <<>>]
       /\ rs_status = "running"
       /\ pc = "idle"
       /\ call = [NoFrameCall EXCEPT !.op = "create", !.result = "ok"]
       /\ log = <<>>
       /\ rlog = <<>>
       /\ stale = FALSE

\* render_system.recreate_swapchain(width, height)?: an Err or a panic
\* ends the process.
RecreateSwapchainCall(ri) ==
    /\ bk_status = "ok"
    /\ bk_n < MaxRecreations
    /\ \E c \in {RenderSystem_recreate_swapchain(
                      PoolsContext(bk_pool, rs, overflow_checks), ri)} :
          /\ bk_pool' = c.pools
          /\ rs' = c.rs
          /\ p_swapchain' = c.pools.swapchain
          /\ bk_status' = c.status
          /\ bk_call' = [op |-> "recreate_swapchain", stale |-> FALSE,
                         result |-> c.status,
                         old_images |-> Len(BackBuffersIn(bk_pool, rs)),
                         new_images |-> ri.new_images]
    /\ bk_n' = bk_n + 1
    /\ UNCHANGED <<bk_issued, gpu, rs_status, caller, pc, call, log, rlog, stale>>
    /\ UNCHANGED <<poolVars, cacheVars, idVars, ecsVars>>

OccupancyNext == \E ri \in RecreateInputs : RecreateSwapchainCall(ri)

---------------------------------------------------------------------------
(* The specifications                                                      *)

vars == <<poolVars, cacheVars, frameVars, backendVars, idVars, ecsVars>>

\* One Pool<T> and its owner's calls.
PoolInit ==
    /\ PoolStart
    /\ CacheStart
    /\ FrameUnused
    /\ BackendStart
    /\ IdStart
    /\ EcsStart

PoolSpec == PoolInit /\ [][PoolNext]_vars

\* The same pool with its capacity limit at GrowLimit.
GrowInit ==
    /\ GrowStart
    /\ CacheStart
    /\ FrameUnused
    /\ BackendStart
    /\ IdStart
    /\ EcsStart

GrowSpec == GrowInit /\ [][GrowNext]_vars

\* A backend with its render-pass and framebuffer pools and caches.
CacheInit ==
    /\ overflow_checks \in BOOLEAN
    /\ PoolUnused
    /\ CacheStart
    /\ FrameUnused
    /\ BackendStart
    /\ IdStart
    /\ EcsStart

CacheSpec == CacheInit /\ [][CacheNext]_vars

\* A RenderSystem after create, its caller and the GPU.
FrameInit ==
    /\ overflow_checks \in BOOLEAN
    /\ PoolUnused
    /\ CacheStart
    /\ BackendStart
    /\ IdStart
    /\ EcsStart
    /\ \E who \in {"render_loop", "any"}, n \in 1..MaxSlots :
          \E images \in n..MaxImages : FrameStart(who, n, images)

FrameSpec == FrameInit /\ [][FrameNext]_vars

\* A RenderSystem after create under the render loop, and a GPU that
\* completes what is submitted.
FrameLiveInit ==
    /\ overflow_checks \in BOOLEAN
    /\ PoolUnused
    /\ CacheStart
    /\ BackendStart
    /\ IdStart
    /\ EcsStart
    /\ \E n \in 1..MaxSlots :
          \E images \in n..MaxImages : FrameStart("render_loop", n, images)

\* The GPU goes on completing submissions while any is pending.
GpuFair == WF_vars(\E fence \in DOMAIN gpu.pending : GpuComplete(fence))

\* The thread inside begin_frame runs on: once the fence is signaled
\* vkWaitForFences returns, and the calls after it return.  The fairness
\* is put on one way of returning (an image is acquired, no call fails):
\* it is enabled exactly while the call is in progress with its fence
\* signaled, and every return of the call, whatever its outcome, disables
\* it, so it forces the call to return and not that outcome.
ProceedInput ==
    [wait_fails |-> FALSE, acquired |-> [kind |-> "image", index |-> 0],
     reset_fails |-> FALSE, recreate |-> NoRecreate]

WaitFair == WF_vars(BeginFrameReturns(ProceedInput))

FrameLiveSpec == FrameLiveInit /\ [][FrameLiveNext]_vars /\ GpuFair /\ WaitFair

\* A backend and the calls that take handles.
BackendInit ==
    /\ overflow_checks \in BOOLEAN
    /\ PoolUnused
    /\ CacheStart
    /\ FrameUnused
    /\ BackendStart
    /\ IdStart
    /\ EcsStart

BackendSpec == BackendInit /\ [][BackendNext]_vars

\* The threads of a process and the counter of one id type.
IdInit ==
    /\ overflow_checks \in BOOLEAN
    /\ PoolUnused
    /\ CacheStart
    /\ FrameUnused
    /\ BackendStart
    /\ IdStart
    /\ EcsStart

IdSpec == IdInit /\ [][IdNext]_vars

\* One Entities and its owner's calls.
EcsInit ==
    /\ overflow_checks \in BOOLEAN
    /\ PoolUnused
    /\ CacheStart
    /\ FrameUnused
    /\ BackendStart
    /\ IdStart
    /\ EcsStart

EcsSpec == EcsInit /\ [][EcsNext]_vars

\* One Entities, its owner's calls, and threads that reserve entities
\* through a shared reference.
ReserveInit ==
    /\ overflow_checks \in BOOLEAN
    /\ PoolUnused
    /\ CacheStart
    /\ FrameUnused
    /\ BackendStart
    /\ IdStart
    /\ EcsStart

ReserveSpec == ReserveInit /\ [][ReserveNext]_vars

\* A backend and a RenderSystem after create, and its swapchain recreated
\* again and again.
OccupancyInit ==
    /\ overflow_checks \in BOOLEAN
    /\ PoolUnused
    /\ CacheStart
    /\ IdStart
    /\ EcsStart
    /\ \E n \in 1..MaxSlots :
          \E images \in n..MaxImages : OccupancyStart(n, images)

OccupancySpec == OccupancyInit /\ [][OccupancyNext]_vars

---------------------------------------------------------------------------
(* StructuralCache                                                         *)

\* Two get_or_create_* calls of one kind that returned Ok, by their
\* descriptors and the backend objects returned.
SameObjectIffSameDescriptor(calls) ==
    \A c1, c2 \in calls : (c1.desc = c2.desc) <=> (c1.raw = c2.raw)

\* Equal descriptors are answered with one backend handle.
EqualDescriptorsShareObject ==
    \A kind \in {"render_pass", "framebuffer"} :
       \A c1, c2 \in cache_calls[kind] : c1.desc = c2.desc => c1.raw = c2.raw

\* C6: get_or_create_render_pass and get_or_create_framebuffer return the
\* identical backend object for two calls whose descriptors are equal and
\* distinct backend objects for two calls whose descriptors differ in any
\* field, over any sequence of calls.
C6_StructuralCache ==
    /\ SameObjectIffSameDescriptor(cache_calls.render_pass)
    /\ SameObjectIffSameDescriptor(cache_calls.framebuffer)


---------------------------------------------------------------------------
(* The frame loop's claims                                                 *)

\* The sync handles of slot i, and those of every other slot.
SlotFence(i) == rs.in_flight_fences[i + 1]

SlotSemaphore(i) == rs.image_availables[i + 1]

OtherSlotsFences(i) ==
    {rs.in_flight_fences[j + 1] : j \in (0..(rs.max_frames_in_flight - 1)) \ {i}}

OtherSlotsSemaphores(i) ==
    {rs.image_availables[j + 1] : j \in (0..(rs.max_frames_in_flight - 1)) \ {i}}
       \cup {rs.render_finisheds[j + 1] : j \in 0..(rs.max_frames_in_flight - 1)}

BackendCalls(name) == {i \in 1..Len(log) : log[i].call = name}

\* C7: in every begin_frame call, whatever calls of begin_frame, end_frame
\* and recreate_swapchain came before it, wait_for_fences is called, and
\* the fence passed to wait_for_fences and to reset_fences is the fence of
\* the slot the call ran on, and the semaphore passed to the acquire is
\* that slot's image-available semaphore; none of them is a handle stored
\* for another slot.
C7_CurrentSlotSync ==
    call.op = "begin_frame" =>
        /\ BackendCalls("wait_for_fences") # {}
        /\ \A i \in BackendCalls("wait_for_fences") \cup BackendCalls("reset_fences") :
              /\ log[i].fence = SlotFence(call.slot)
              /\ log[i].fence \notin OtherSlotsFences(call.slot)
        /\ \A i \in BackendCalls("acquire_swapchain_next_image") :
              /\ log[i].semaphore = SlotSemaphore(call.slot)
              /\ log[i].semaphore \notin OtherSlotsSemaphores(call.slot)

\* C7, witness: after a recreation, a begin_frame on a slot other than the
\* first has waited, acquired an image and reset the fence.
C7_Witness ==
    /\ call.op = "begin_frame"
    /\ call.result = "true"
    /\ call.slot > 0
    /\ rs.swapchain.generation > 0
    /\ BackendCalls("reset_fences") # {}
    /\ BackendCalls("acquire_swapchain_next_image") # {}


\* The backend calls that destroy an object the swapchain owns.
Destructions == {"destroy_framebuffer", "destroy_image", "destroy_swapchain"}

IdleWaits == {i \in 1..Len(rlog) : rlog[i] = "device_wait_idle"}

\* C8: a call that ran recreate_swapchain issued exactly one
\* device_wait_idle in it, and issued it before the first destruction of a
\* framebuffer, of the depth image or of the swapchain, whether the
\* recreation came from an out-of-date acquire, from a suboptimal present,
\* from the forced-recreate flag or from a direct call.
C8_OneIdleWaitBeforeDestruction ==
    rlog # <<>> =>
        /\ call.trigger \in {"out_of_date", "suboptimal", "forced", "both", "direct"}
        /\ Cardinality(IdleWaits) = 1
        /\ \A i \in 1..Len(rlog) :
              rlog[i] \in Destructions => \E j \in IdleWaits : j < i

\* A recreation that ran to its end and destroyed what the swapchain owned.
RecreationDone(trigger) ==
    /\ call.trigger = trigger
    /\ call.recreated
    /\ \A d \in Destructions : \E i \in 1..Len(rlog) : rlog[i] = d

\* C8, witness: a recreation triggered by a suboptimal present has run to
\* its end.
C8_Witness == call.op = "end_frame" /\ RecreationDone("suboptimal")

\* The same for an out-of-date acquire and for the forced-recreate flag.
C8_WitnessOutOfDate == call.op = "begin_frame" /\ RecreationDone("out_of_date")

C8_WitnessForced == call.op = "end_frame" /\ RecreationDone("forced")


\* A step that changes the frame-slot index is a step of end_frame.
SlotChangesOnlyInEndFrame == rs'.frame # rs.frame => call'.op = "end_frame"

\* What a begin_frame that returned Ok(..) has done.  An Err of a backend
\* call, or a panic, ends the process in main's unwrap.
BeginFrameOutcome ==
    call.op = "begin_frame" =>
        /\ call.kept_frame
        /\ call.result \in {"true", "false"} =>
              /\ call.result = "true" <=> call.acquired \in {"image", "suboptimal"}
              /\ call.result = "false" <=> call.acquired = "out_of_date"
              /\ call.acquired = "out_of_date" =>
                    /\ call.kept_image_index
                    /\ call.recreated
              /\ call.result = "true" => ~stale

\* C9: the frame-slot index changes only inside end_frame; begin_frame
\* never changes it, and where it returns Ok, it returns true when the
\* acquire yielded an image; when the acquire reported out-of-date, it
\* returns false with the recorded image index unchanged and a recreation
\* completed, so no begin_frame returns true between an out-of-date
\* acquire and the completion of a recreation.
C9_FrameScheduler == [][SlotChangesOnlyInEndFrame]_vars /\ []BeginFrameOutcome

\* C9, witness: on a slot other than the first and with an image index
\* recorded, begin_frame has met an out-of-date acquire, has recreated the
\* swapchain and has returned false.
C9_Witness ==
    /\ call.op = "begin_frame"
    /\ call.result = "false"
    /\ call.acquired = "out_of_date"
    /\ call.recreated
    /\ rs.frame > 0
    /\ rs.image_index > 0


\* The submissions the GPU has not completed: of one slot, and of all.
Incomplete(i) == gpu.pending[SlotFence(i)]

RECURSIVE IncompleteUpTo(_)
IncompleteUpTo(i) == IF i < 0 THEN 0 ELSE Incomplete(i) + IncompleteUpTo(i - 1)

TotalIncomplete == IncompleteUpTo(rs.max_frames_in_flight - 1)

\* C10: with a caller that follows the render loop, while the CPU records
\* for the current slot (begin_frame has returned true, the submission is
\* not made yet) the GPU has completed every earlier submission of that
\* slot; so a slot never has two incomplete submissions, and the number of
\* incomplete submissions never exceeds the number of slots.
C10_PipeliningBound ==
    caller = "render_loop" =>
        /\ pc = "recording" => Incomplete(rs.frame) = 0
        /\ \A i \in 0..(rs.max_frames_in_flight - 1) : Incomplete(i) <= 1
        /\ TotalIncomplete <= rs.max_frames_in_flight

\* C10, witness: the loop has run ahead of the GPU as far as it can: with
\* two slots or more, every slot has its submission incomplete.
C10_Witness ==
    /\ caller = "render_loop"
    /\ rs.max_frames_in_flight >= 2
    /\ TotalIncomplete = rs.max_frames_in_flight
    /\ rs_status = "running"

\* The CPU records for a slot that had a submission before, and that
\* submission is complete.
C10_WitnessRecording ==
    /\ caller = "render_loop"
    /\ pc = "recording"
    /\ rs.max_frames_in_flight >= 2
    /\ TotalIncomplete = rs.max_frames_in_flight - 1
    /\ Incomplete(rs.frame) = 0


---------------------------------------------------------------------------
(* Surface lifecycle                                                       *)

SurfaceReports == {"out_of_date", "suboptimal"}

\* The backend call whose Err the last handler returned.
FailedCall == IF call.result = "error" /\ log # <<>> THEN log[Len(log)].call ELSE "none"

\* The driver's report was met by a recreation, and the call that received
\* the report did not return it as an Err.
ReportHandled(report_call) ==
    /\ rlog # <<>>
    /\ FailedCall # report_call

\* C11: an out-of-date or suboptimal swapchain, reported on the acquire of
\* begin_frame or on the present of end_frame, leads to a run of
\* recreate_swapchain and is not returned as an error by the call that
\* received it; after an out-of-date acquire that was recreated without
\* failure the caller sees begin_frame's false.
C11_SurfaceReportsHandled ==
    /\ call.op = "begin_frame" /\ call.acquired \in SurfaceReports
          => ReportHandled("acquire_swapchain_next_image")
    /\ call.op = "end_frame" /\ call.presented \in SurfaceReports
          => ReportHandled("queue_present")
    /\ call.op = "begin_frame" /\ call.acquired = "out_of_date" /\ call.recreated
          => call.result = "false"

\* The parts of C11 that hold: an out-of-date acquire and a suboptimal
\* present are met by a recreation and are not returned as an Err.
C11_HandledReports ==
    /\ call.op = "begin_frame" /\ call.acquired = "out_of_date"
          => ReportHandled("acquire_swapchain_next_image")
    /\ call.op = "end_frame" /\ call.presented = "suboptimal"
          => ReportHandled("queue_present")

\* The two reports that are not handled so: the out-of-date present is
\* returned as an Err, and the suboptimal acquire is not recreated.
C11_OutOfDatePresentIsErr ==
    call.op = "end_frame" /\ call.presented = "out_of_date"
        => FailedCall = "queue_present" /\ rlog = <<>>

C11_SuboptimalAcquireIgnored ==
    call.op = "begin_frame" /\ call.acquired = "suboptimal" => rlog = <<>>


---------------------------------------------------------------------------
(* Stale handles                                                           *)

\* C12: a backend operation that was given a freed or never-allocated
\* handle ends with an explicit not-found error or does nothing; it does
\* not panic.
C12_StaleHandleNeverPanics ==
    bk_call.stale => bk_call.result \in {"not_found", "noop"}

\* The operations for which that holds: the fence waits and resets of both
\* backends, and every destroy_*.
C12_CheckedOperations ==
    /\ bk_call.stale
    /\ bk_call.op \notin {"queue_submit", "queue_present", "cmd_bind_vertex_buffers"}
    => bk_call.result \in {"not_found", "noop"}

\* A panic of an operation of this part has a stale handle behind it, or
\* the empty slice given to the rhi's wait_for_fences.
C12_PanicsAreUnwraps ==
    bk_call.result = "panic" /\ bk_call.op \notin {"create_" \o k : k \in Kinds}
        => bk_call.stale \/ bk_call.op = "rhi_wait_for_fences"


---------------------------------------------------------------------------
(* More claims about the pool                                              *)

LiveIndices == {h.index : h \in live}

\* A malloc step that returns a handle returns one whose index no live
\* handle has.
MallocIndexNotLive ==
    last'.op = "malloc" /\ last' # last /\ pool_status' = "ok"
        => last'.h.index \notin LiveIndices

\* The indices malloc will hand out next are not those of live handles,
\* and none is on the free stack twice.
FreeStackNotLive ==
    \A j \in 1..Len(pool.free_indices) :
        /\ pool.free_indices[j] \notin LiveIndices
        /\ \A k \in 1..Len(pool.free_indices) :
              pool.free_indices[j] = pool.free_indices[k] => j = k

\* The capacity stays within u16::MAX slots, and a malloc on a pool of
\* that capacity with every slot live panics: no handle, nothing changed.
ExhaustionIsFatal ==
    /\ Len(pool.generations) <= U16_MAX
    /\ Len(pool.items) <= U16_MAX
    /\ (last.op = "malloc" /\ last.full_before /\ last.cap_before = U16_MAX) =>
          /\ pool_status = "panic_max"
          /\ last.h = NoHandle
          /\ ~last.changed
    /\ pool_status \in {"ok", "panic_max"} => FreeStackNotLive
    /\ pool_status = "panic_max" =>
          /\ Cardinality(LiveIndices) = U16_MAX
          /\ Len(pool.generations) = U16_MAX

NoSlotWrapped == \A i \in DOMAIN frees : NotWrapped(i)

\* ExhaustionIsFatal, its part about the free stack read for pools none
\* of whose generations has wrapped.
ExhaustionIsFatalNoWrap ==
    /\ Len(pool.generations) <= U16_MAX
    /\ Len(pool.items) <= U16_MAX
    /\ (last.op = "malloc" /\ last.full_before /\ last.cap_before = U16_MAX) =>
          /\ pool_status = "panic_max"
          /\ last.h = NoHandle
          /\ ~last.changed
    /\ NoSlotWrapped /\ pool_status \in {"ok", "panic_max"} => FreeStackNotLive
    /\ pool_status = "panic_max" =>
          /\ Cardinality(LiveIndices) = U16_MAX
          /\ Len(pool.generations) = U16_MAX

C13_WitnessDoublePush ==
    /\ pool_status = "ok"
    /\ last.op = "malloc"
    /\ last.h \in live
    /\ \E j \in 1..Len(pool.free_indices) : pool.free_indices[j] = last.h.index

MallocReturnsHandle ==
    /\ pool_status = "ok"
    /\ last.found
    /\ last.h # NoHandle
    /\ get(pool, last.h).found
    /\ last.grew <=> last.full_before
    /\ last.grew => /\ Len(pool.generations) > last.cap_before
                    /\ Len(pool.generations) <= 2 * last.cap_before

\* C14: a malloc on a pool of fewer than u16::MAX slots returns a handle,
\* after growing the pool once when the free stack was empty, whatever
\* the capacity the pool was constructed with, 0 and 1 included.
C14_MallocTerminates ==
    last.op = "malloc" /\ last.cap_before < U16_MAX => MallocReturnsHandle

\* The part of C14 that holds: the same for a pool that has a slot.
C14_MallocTerminatesFromOne ==
    last.op = "malloc" /\ last.cap_before < U16_MAX /\ last.cap_before >= 1
        => MallocReturnsHandle

\* The malloc on a pool without slots does not return.
C14_MallocOnEmptyDiverges ==
    last.op = "malloc" /\ last.cap_before = 0 => pool_status = "diverged"


\* A malloc step that returned a handle.
MallocStep == last'.op = "malloc" /\ last' # last /\ pool_status' = "ok"

\* The item init() constructs, with the handle malloc stores in it.
FreshItem(p, h) == [p.fp_init EXCEPT !.handle = h]

\* C15: the item malloc hands out for a slot that was allocated and freed
\* before equals the pool's default construction apart from its stored
\* handle: nothing the previous occupant wrote is left in it.
C15_ReusedSlotIsDefault ==
    [][MallocStep /\ frees[last'.slot] > 0
         => pool'.items[last'.slot + 1] = FreshItem(pool, last'.h)]_vars

\* What holds instead: a slot that was never handed out before is in its
\* default construction, and a reused one has the new handle stored and
\* the payload it had when it was freed.
C15_ReusedSlotKeepsPayload ==
    [][MallocStep =>
         /\ pool'.items[last'.slot + 1].handle = last'.h
         /\ frees[last'.slot] = 0 =>
               pool'.items[last'.slot + 1] = FreshItem(pool, last'.h)
         /\ frees[last'.slot] > 0 =>
               pool'.items[last'.slot + 1].data = pool.items[last'.slot + 1].data]_vars


\* What a free of a valid handle has done when it wrapped or incremented.
FreeBumped ==
    /\ pool_status = "ok"
    /\ pool.generations[last.h.index + 1] = (last.h.generation + 1) % (U16_MAX + 1)
    /\ Top(pool.free_indices) = last.h.index
    /\ last.changed

\* C16: free on a valid handle increments the slot's generation modulo
\* 2^16; for a generation of u16::MAX it succeeds, leaves the generation
\* at 0 and pushes the index.
C16_FreeWraps ==
    last.op = "free" /\ last.found => FreeBumped

\* The part of C16 that holds in every build: the free of a handle whose
\* generation is below u16::MAX; and in a build without overflow checks
\* the free of every valid handle.
C16_FreeBumpsBelowMax ==
    last.op = "free" /\ last.found
        /\ (last.h.generation < U16_MAX \/ ~overflow_checks) => FreeBumped

\* In a build with overflow checks the free of a handle of generation
\* u16::MAX panics after the index was pushed, the generation unchanged.
C16_FreeAtMaxPanicsWhenChecked ==
    last.op = "free" /\ last.found /\ last.h.generation = U16_MAX /\ overflow_checks
        => /\ pool_status = "panic_overflow"
           /\ pool.generations[last.h.index + 1] = U16_MAX
           /\ Top(pool.free_indices) = last.h.index


---------------------------------------------------------------------------
(* The frame slots' lifecycle, the recreated swapchain                     *)

SyncCalls == {"create_fence", "create_semaphore", "destroy_fence", "destroy_semaphore"}

Slots == 0..(rs.max_frames_in_flight - 1)

\* The number of calls `name` the last handler made for this fence, for
\* this semaphore.
FenceCalls(name, fence) ==
    Cardinality({i \in BackendCalls(name) : log[i].fence = fence})

SemaphoreCalls(name, semaphore) ==
    Cardinality({i \in BackendCalls(name) : log[i].semaphore = semaphore})

\* Every slot's fence and two semaphores went through `fence_call` /
\* `semaphore_call` once, and no other object did.
EachSlotOnce(fence_call, semaphore_call) ==
    /\ \A i \in Slots :
          /\ FenceCalls(fence_call, rs.in_flight_fences[i + 1]) = 1
          /\ SemaphoreCalls(semaphore_call, rs.image_availables[i + 1]) = 1
          /\ SemaphoreCalls(semaphore_call, rs.render_finisheds[i + 1]) = 1
    /\ Cardinality(BackendCalls(fence_call)) = rs.max_frames_in_flight
    /\ Cardinality(BackendCalls(semaphore_call)) = 2 * rs.max_frames_in_flight

\* No step changes the slot count or one of the three vectors of sync
\* handles.
SlotsUntouched ==
    /\ rs'.max_frames_in_flight = rs.max_frames_in_flight
    /\ rs'.in_flight_fences = rs.in_flight_fences
    /\ rs'.image_availables = rs.image_availables
    /\ rs'.render_finisheds = rs.render_finisheds

SlotLifecycle ==
    /\ Len(rs.in_flight_fences) = rs.max_frames_in_flight
    /\ Len(rs.image_availables) = rs.max_frames_in_flight
    /\ Len(rs.render_finisheds) = rs.max_frames_in_flight
    /\ call.op = "create" =>
          /\ EachSlotOnce("create_fence", "create_semaphore")
          /\ BackendCalls("destroy_fence") \cup BackendCalls("destroy_semaphore") = {}
    /\ call.op = "destroy" /\ call.result = "destroyed" =>
          /\ EachSlotOnce("destroy_fence", "destroy_semaphore")
          /\ BackendCalls("create_fence") \cup BackendCalls("create_semaphore") = {}
    /\ call.op \in {"begin_frame", "end_frame", "recreate_swapchain", "queue_submit"} =>
          \A i \in 1..Len(log) : log[i].call \notin SyncCalls

\* C17: the fence and the two semaphores of every slot are created once
\* in RenderSystem::create and destroyed once in RenderSystem::destroy;
\* begin_frame, end_frame and recreate_swapchain create, destroy and
\* replace none of them and leave the slot count as it is, also when the
\* new swapchain has another number of images.
C17_SlotLifecycle == [][SlotsUntouched]_vars /\ []SlotLifecycle

\* C17, witness: with two slots or more, a recreation has run to its end
\* for a swapchain of another number of images than there are slots.
C17_Witness ==
    /\ call.recreated
    /\ rs.max_frames_in_flight >= 2
    /\ get(p_swapchain, rs.swapchain).found
    /\ p_swapchain.items[rs.swapchain.index + 1].back_buffers # rs.max_frames_in_flight

\* After such recreations, destroy has run to its end.
C17_WitnessDestroyed ==
    /\ call.op = "destroy"
    /\ call.result = "destroyed"
    /\ rs.max_frames_in_flight >= 2
    /\ rs.swapchain.generation > 0


\* The number of back-buffer images of the RenderSystem's swapchain.
BackBuffers == p_swapchain.items[rs.swapchain.index + 1].back_buffers

\* Framebuffer i is the one made for back buffer i of the current
\* swapchain, and the depth image is the one made along with it.
FramebuffersOfNewSwapchain(n) ==
    /\ Len(rs.swapchain_framebuffers) = n
    /\ \A i \in 1..n :
          rs.swapchain_framebuffers[i] = FramebufferOf(rs.swapchain, i - 1)
    /\ rs.depth_image = DepthImageOf(rs.swapchain)

\* C18: after a recreate_swapchain that returned Ok, swapchain_framebuffers
\* has one framebuffer per back-buffer image of the new swapchain, made
\* for that image and the new depth image, whatever the number of images.
C18_FramebufferPerImage ==
    call.recreated =>
        /\ get(p_swapchain, rs.swapchain).found
        /\ FramebuffersOfNewSwapchain(BackBuffers)

\* What holds instead: one framebuffer per frame slot, for the first
\* max_frames_in_flight images, of which the new swapchain has no fewer.
C18_FramebufferPerSlot ==
    call.recreated =>
        /\ get(p_swapchain, rs.swapchain).found
        /\ FramebuffersOfNewSwapchain(rs.max_frames_in_flight)
        /\ BackBuffers >= rs.max_frames_in_flight

\* A new swapchain of fewer images than slots ends the recreation in a
\* panic: back_buffers[index] is out of bounds.
C18_FewerImagesPanics ==
    /\ rlog # <<>>
    /\ rs_status = "running"
    /\ get(p_swapchain, rs.swapchain).found
    => BackBuffers >= rs.max_frames_in_flight

---------------------------------------------------------------------------
(* C19: the caches keep the entries of destroyed objects                   *)

\* A step removes no entry from either cache and changes none.
CachesOnlyGrow ==
    /\ device.render_pass_cache \subseteq device'.render_pass_cache
    /\ device.framebuffer_cache \subseteq device'.framebuffer_cache

\* The backend calls that destroy a cached object or something it was
\* created with.
CacheDestroys ==
    {"destroy_framebuffer", "destroy_render_pass", "destroy_image_view",
     "destroy_image", "destroy_swapchain"}

\* A destroy_* call leaves the device, and so both caches, as they were.
DestroyKeepsCaches ==
    last_cache'.op \in CacheDestroys /\ ncalls' # ncalls => device' = device

\* The item a create_* step has put in a pool: the one of the handle it
\* returned.
Created(kind) ==
    {res_pool'[kind].items[h.index + 1] : h \in held'[kind] \ held[kind]}

\* A create call whose descriptor is a key of the cache is given the cached
\* handle, whether or not the driver still has the object.
CachedObjectReturned ==
    /\ \A it \in Created("render_pass") : \A e \in device.render_pass_cache :
          e.key = it.output => it.raw = e.raw
    /\ \A it \in Created("framebuffer") : \A e \in device.framebuffer_cache :
          e.key = it.desc => it.raw = e.raw

\* Every object a create call has returned is still the cache's answer for
\* its descriptor.
ReturnedStillCached ==
    /\ \A c \in cache_calls.render_pass :
          [key |-> c.desc, raw |-> c.raw] \in device.render_pass_cache
    /\ \A c \in cache_calls.framebuffer :
          [key |-> c.desc, raw |-> c.raw] \in device.framebuffer_cache

\* C19: no operation removes an entry from render_pass_cache or
\* framebuffer_cache: after destroy_framebuffer, destroy_render_pass,
\* destroy_image_view, destroy_image or destroy_swapchain the entry keyed by
\* the affected descriptor is still present, and a later create call with an
\* equal descriptor returns the cached object although it was destroyed.
C19_CacheNeverEvicts ==
    /\ [][CachesOnlyGrow /\ DestroyKeepsCaches /\ CachedObjectReturned]_vars
    /\ []ReturnedStillCached

\* A create_framebuffer was answered from the cache with a framebuffer that
\* destroy_framebuffer had destroyed.
C19_Witness ==
    /\ last_cache.op = "create_framebuffer"
    /\ last_cache.ok /\ last_cache.hit
    /\ last_cache.raw \notin vk_alive.framebuffers

\* The same for a render pass destroyed by destroy_render_pass.
C19_WitnessRenderPass ==
    /\ last_cache.op = "create_render_pass"
    /\ last_cache.ok /\ last_cache.hit
    /\ last_cache.raw \notin vk_alive.render_passes

\* A create_framebuffer was answered from the cache with a framebuffer an
\* image view of which had been destroyed.
C19_WitnessDestroyedView ==
    /\ last_cache.op = "create_framebuffer"
    /\ last_cache.ok /\ last_cache.hit
    /\ last_cache.raw \in vk_alive.invalidated
    /\ \A e1, e2 \in device.framebuffer_cache :
          e1.raw = last_cache.raw /\ e2.raw = last_cache.raw => e1 = e2

\* A destroy_image_view, destroy_image or destroy_swapchain took the view
\* of a cached framebuffer, and the entry is still there.
C19_WitnessDependency ==
    /\ last_cache.op \in {"destroy_image_view", "destroy_image", "destroy_swapchain"}
    /\ \E e \in device.framebuffer_cache : e.raw \in vk_alive.invalidated

---------------------------------------------------------------------------
(* C20: a recreation that fails after the cleanup is not rolled back       *)

\* How often a backend call was made inside recreate_swapchain.
TimesIn(calls, name) == Cardinality({k \in DOMAIN calls : calls[k] = name})

\* The step is a call that returned Err from inside recreate_swapchain
\* after cleanup_swapchain had run.
FailsAfterCleanup ==
    /\ rs_status = "running" /\ rs_status' = "error"
    /\ TimesIn(rlog', "destroy_swapchain") = 1

\* The step's cleanup destroyed everything the RenderSystem held before the
\* call: each framebuffer, the depth image, the swapchain.
OldDestroyed ==
    /\ TimesIn(rlog', "destroy_framebuffer") = Len(rs.swapchain_framebuffers)
    /\ TimesIn(rlog', "destroy_image") = 1
    /\ ~get(p_swapchain', rs.swapchain).found

\* After the step the RenderSystem holds a handle it held before, which
\* the cleanup has destroyed.
HoldsOldSwapchain == rs'.swapchain = rs.swapchain
HoldsOldDepth == rs'.depth_image = rs.depth_image
HoldsOldFramebuffers ==
    /\ rs.swapchain_framebuffers # <<>>
    /\ rs'.swapchain_framebuffers = rs.swapchain_framebuffers

\* After the step the RenderSystem holds new handles only: the new
\* swapchain, its depth image and the framebuffers made so far.
HoldsNewOnly ==
    /\ get(p_swapchain', rs'.swapchain).found
    /\ rs'.depth_image = DepthImageOf(rs'.swapchain)
    /\ \A k \in DOMAIN rs'.swapchain_framebuffers :
          rs'.swapchain_framebuffers[k] = FramebufferOf(rs'.swapchain, k - 1)

\* The backend call whose Err the step returns.
FailedCallNext == log'[Len(log')].call

\* The statement as the claim words it: whichever step fails after the
\* cleanup, the RenderSystem is left holding a handle that no longer
\* validates.
C20_HoldsStaleHandles ==
    [][FailsAfterCleanup =>
         /\ call'.result = "error"
         /\ OldDestroyed
         /\ HoldsOldSwapchain \/ HoldsOldDepth \/ HoldsOldFramebuffers]_vars

\* C20: recreate_swapchain is not transactional.  When a step fails after
\* cleanup_swapchain has run, the error is returned and nothing the cleanup
\* destroyed is restored; what the RenderSystem is left holding depends on
\* the step: the old swapchain, depth image and framebuffers (all
\* destroyed) for create_swapchain, the old depth image and framebuffers
\* for create_depth, the old framebuffers for transition_image_layout, and
\* for a failure inside the loop new handles only, with fewer framebuffers
\* than frame slots.
C20_NotTransactional ==
    [][FailsAfterCleanup =>
         /\ call'.result = "error"
         /\ OldDestroyed
         /\ rs'.max_frames_in_flight = rs.max_frames_in_flight
         /\ CASE FailedCallNext = "create_swapchain" ->
                   HoldsOldSwapchain /\ HoldsOldDepth /\ HoldsOldFramebuffers
              [] FailedCallNext = "create_depth" ->
                   /\ get(p_swapchain', rs'.swapchain).found
                   /\ HoldsOldDepth /\ HoldsOldFramebuffers
              [] FailedCallNext = "queue_wait_idle" ->
                   /\ get(p_swapchain', rs'.swapchain).found
                   /\ rs'.depth_image = DepthImageOf(rs'.swapchain)
                   /\ HoldsOldFramebuffers
              [] FailedCallNext \in {"create_image_view", "create_framebuffer"} ->
                   /\ HoldsNewOnly
                   /\ Len(rs'.swapchain_framebuffers) < rs'.max_frames_in_flight
              [] OTHER -> FALSE]_vars

\* create_swapchain failed after the cleanup: the error was returned and
\* the swapchain handle the RenderSystem holds does not validate.
C20_Witness ==
    /\ call.result = "error"
    /\ TimesIn(rlog, "destroy_swapchain") = 1
    /\ FailedCall = "create_swapchain"
    /\ ~get(p_swapchain, rs.swapchain).found
    /\ rs.swapchain_framebuffers # <<>>

\* create_framebuffer failed in the second iteration: the RenderSystem
\* holds the new swapchain and one framebuffer for two frame slots.
C20_WitnessInLoop ==
    /\ call.result = "error"
    /\ TimesIn(rlog, "destroy_swapchain") = 1
    /\ FailedCall = "create_framebuffer"
    /\ get(p_swapchain, rs.swapchain).found
    /\ rs.swapchain_framebuffers = <<FramebufferOf(rs.swapchain, 0)>>
    /\ rs.max_frames_in_flight >= 2

---------------------------------------------------------------------------
(* C21: the ids of a define_atomic_id! type                                *)

\* No id has been returned by two calls of new().
NoIdReturnedTwice == \A id \in DOMAIN id_returned : id_returned[id] <= 1

\* C21: every call of new(), racing calls included, returns an id different
\* from every id returned before; the call that finds the counter exhausted
\* panics, and no later call returns an id that was already handed out.
C21_IdsUnique == NoIdReturnedTwice

\* Until the counter is exhausted the ids are unique, whatever the
\* interleaving of the threads.
C21_UniqueUntilExhaustion == id_calls <= U32_MAX + 1 => NoIdReturnedTwice

\* The call whose fetch_add returned 0 panics and returns no id.
C21_ExhaustedCallPanics ==
    [][\A t \in Threads :
          id_pc[t] = "fetched" /\ id_local[t] = 0 /\ id_pc'[t] # id_pc[t]
             => id_pc'[t] = "panicked" /\ id_returned' = id_returned]_vars

\* A thread other than the main thread has panicked in new(), and a later
\* call has returned id 1 a second time.
C21_DuplicateAfterPanic ==
    /\ \E t \in Threads : id_pc[t] = "panicked"
    /\ id_status = "running"
    /\ id_returned[1] = 2

---------------------------------------------------------------------------
(* C22: the result of free_entity                                          *)

\* The entity is currently allocated: its id is in range, its generation
\* is the stored one and its location is set.
Allocated(e, entity) ==
    /\ entity.id < Len(e.metas)
    /\ e.metas[entity.id + 1].generation = entity.generation
    /\ e.metas[entity.id + 1].location.index # U32_MAX

\* The step is a call free_entity(ecs_last'.entity) that returned.
FreeEntityStep ==
    /\ ecs_last'.op = "free_entity"
    /\ ecs_last'.outcome \in {"ok", "EntityNotFound"}

\* Ok exactly when the entity is allocated, Err(EntityNotFound) otherwise,
\* and on Err nothing changes.
FreeResult ==
    /\ ecs_last'.outcome = "ok" <=> Allocated(entities, ecs_last'.entity)
    /\ ecs_last'.outcome = "EntityNotFound" => entities' = entities

\* The frees of the entity's id, counted from 1, that freed this entity:
\* free number k of an id meets generation ((k - 1) mod u32::MAX) + 1.
FreesOf(entity) ==
    {k \in 1..ecs_freed[entity.id] : ((k - 1) % U32_MAX) + 1 = entity.generation}

\* How many times the entity's id has been freed since the entity itself
\* was last freed (-1: the entity has never been freed).
FreesSince(entity) ==
    IF FreesOf(entity) = {} THEN -1
    ELSE ecs_freed[entity.id] - (CHOOSE k \in FreesOf(entity) :
                                    \A j \in FreesOf(entity) : j <= k)

\* A free_entity that returned Ok is counted as a free of its entity.
FreeCounted ==
    ecs_last'.outcome = "ok" /\ ecs_freed' # ecs_freed
       => ecs_freed'[ecs_last'.entity.id] \in
             {k \in 1..ecs_freed'[ecs_last'.entity.id] :
                ((k - 1) % U32_MAX) + 1 = ecs_last'.entity.generation}

\* The statement as the claim words it: freeing an entity that was already
\* freed returns Err, whatever has happened to its id since.
C22_FreeEntityResult ==
    [][FreeEntityStep =>
         /\ FreeResult
         /\ FreesSince(ecs_last'.entity) >= 0
               => ecs_last'.outcome = "EntityNotFound"]_vars

\* C22: free_entity(e) returns Ok exactly when e is currently allocated (id
\* in range, generation equal to the stored one, location set) and
\* Err(EntityNotFound) otherwise; on Err no state changes.  For an entity
\* that was already freed it returns Err as long as the id has been freed
\* fewer than u32::MAX - 1 more times since: after that many the generation
\* is the entity's again.
C22_FreeEntityResultNoWrap ==
    [][FreeEntityStep =>
         /\ FreeResult
         /\ FreeCounted
         /\ FreesSince(ecs_last'.entity) \in 0..(U32_MAX - 2)
               => ecs_last'.outcome = "EntityNotFound"]_vars

\* An entity that had been freed, and whose id has been issued again with
\* another generation, was passed to free_entity, which returned Err.
C22_Witness ==
    /\ ecs_last.op = "free_entity"
    /\ ecs_last.outcome = "EntityNotFound"
    /\ FreesSince(ecs_last.entity) = 0
    /\ \E x \in ecs_live : x.id = ecs_last.entity.id /\ Allocated(entities, x)

\* free_entity returned Ok for the second time for one entity: the
\* generation of its id had wrapped.
C22_WitnessWrapped ==
    /\ ecs_last.op = "free_entity"
    /\ ecs_last.outcome = "ok"
    /\ Cardinality(FreesOf(ecs_last.entity)) = 2

---------------------------------------------------------------------------
(* C23: len() and the reuse of freed ids                                   *)

\* len() is the number of alloc_entity calls minus the number of
\* successful free_entity calls.
LenIsCount ==
    ecs_status = "ok" => len(entities) = ecs_allocs - ecs_frees

\* A step in which alloc_entity returned an entity.
AllocEntityStep ==
    /\ ecs_allocs' = ecs_allocs + 1
    /\ ecs_last'.op = "alloc_entity"

\* alloc_entity takes the id on top of the free list when there is one,
\* and the id it issues is not the id of a live entity.
AllocReusesFreed ==
    AllocEntityStep =>
       /\ entities.pending # <<>> =>
             /\ ecs_last'.entity.id = entities.pending[Len(entities.pending)]
             /\ Len(entities'.pending) = Len(entities.pending) - 1
             /\ entities'.metas = entities.metas
       /\ \A x \in ecs_live : x.id # ecs_last'.entity.id

\* C23: len() equals the number of alloc_entity calls minus the number of
\* successful free_entity calls after every step of any interleaving of the
\* two operations; alloc_entity takes an id from the free list whenever it
\* is non-empty and never issues an id that is currently live.
C23_LenAndReuse == [][AllocReusesFreed]_vars /\ []LenIsCount

\* len() is that difference modulo 2^32, so it is the difference while at
\* most u32::MAX entities are live.
C23_LenIsCountModulo ==
    ecs_status = "ok" =>
       len(entities) = (ecs_allocs - ecs_frees) % (U32_MAX + 1)

\* The reuse of freed ids holds on every alloc_entity.
C23_AllocReusesFreed == [][AllocReusesFreed]_vars

\* In a build with overflow checks the alloc_entity that would make the
\* count exceed u32::MAX panics on `self.len += 1`, and len() is the
\* difference after every call that returns.
C23_LenIsCountWhenChecked == overflow_checks => LenIsCount

\* In a build without overflow checks 2^32 entities are live and len() is 0.
C23_LenWrapped ==
    /\ ecs_status = "ok"
    /\ ~overflow_checks
    /\ ecs_allocs - ecs_frees = U32_MAX + 1
    /\ len(entities) = 0

---------------------------------------------------------------------------
(* C24: end_frame                                                          *)

\* The step is a call of a handler, not the GPU's.
HandlerStep ==
    <<rs, p_swapchain, rs_status, pc, call, log, rlog, stale>>'
       # <<rs, p_swapchain, rs_status, pc, call, log, rlog, stale>>

\* A step in which begin_frame returned true.
BeginFrameTrueStep ==
    /\ HandlerStep
    /\ call'.op = "begin_frame" /\ call'.result = "true"

\* The step is a call of end_frame.
EndFrameStep ==
    /\ HandlerStep
    /\ call'.op = "end_frame"
    /\ log' # <<>> /\ log'[1].call = "queue_present"

\* image_index is the index the acquire of the last begin_frame that
\* returned true was given: such a begin_frame records it, and no other
\* call that returns without error assigns the field.
ImageIndexIsLastAcquired ==
    IF BeginFrameTrueStep
    THEN \E k \in DOMAIN log' :
            /\ log'[k].call = "acquire_swapchain_next_image"
            /\ log'[k].image = rs'.image_index
    ELSE rs_status' = "running" => rs'.image_index = rs.image_index

\* end_frame's present is given that image and waits on the render-finished
\* semaphore of the slot the call started on.
PresentsRecordedImage ==
    EndFrameStep =>
       /\ log'[1].image = rs.image_index
       /\ log'[1].semaphore = rs.render_finisheds[rs.frame + 1]

\* After a present that returned without error, recreate_swapchain runs
\* exactly when the present reported suboptimal or the caller asked for it.
RecreatesWhenAsked ==
    EndFrameStep /\ call'.presented \in {"ok", "suboptimal"} =>
       (rlog' # <<>> <=> call'.presented = "suboptimal" \/ call'.forced)

\* A return without error has advanced the slot by one.
AdvancesSlot ==
    EndFrameStep /\ call'.result = "ok" =>
       /\ rs'.frame = (rs.frame + 1) % rs.max_frames_in_flight
       /\ rs'.max_frames_in_flight = rs.max_frames_in_flight

\* C24: end_frame presents the image recorded by the last successful
\* begin_frame, waiting on the current slot's render-finished semaphore; it
\* runs recreate_swapchain exactly when the present reports suboptimal or
\* the caller passed force_recreate; on every non-error return it has
\* advanced frame to (frame + 1) mod max_frames_in_flight, also when
\* recreation ran.
C24_EndFrame ==
    [][/\ ImageIndexIsLastAcquired
       /\ PresentsRecordedImage
       /\ RecreatesWhenAsked
       /\ AdvancesSlot]_vars

\* end_frame returned Ok after a recreation the caller had asked for, on a
\* system of two slots or more: it presented image 1 and is on the next slot.
C24_Witness ==
    /\ call.op = "end_frame" /\ call.result = "ok"
    /\ call.forced /\ call.presented = "ok" /\ call.recreated
    /\ log[1].image = 1
    /\ rs.max_frames_in_flight >= 2
    /\ rs.frame = (call.slot + 1) % rs.max_frames_in_flight

\* end_frame returned Ok without recreation.
C24_WitnessNoRecreation ==
    /\ call.op = "end_frame" /\ call.result = "ok"
    /\ ~call.forced /\ call.presented = "ok" /\ rlog = <<>>
    /\ rs.frame # call.slot


---------------------------------------------------------------------------
(* C25: begin_frame resets the fence only after a successful acquire, and
   every begin_frame call returns *)

\* The begin_frame the render loop had entered returns in this step.
BeginFrameReturnStep == pc = "begin_frame" /\ pc' # "begin_frame"

\* The call reset a fence only after its acquire had yielded an image.
ResetAfterAcquire ==
    BeginFrameReturnStep =>
        \A k \in DOMAIN log' :
           log'[k].call = "reset_fences" =>
              \E j \in 1..(k - 1) : /\ log'[j].call = "acquire_swapchain_next_image"
                                    /\ log'[j].image >= 0

\* A call that returned false left the current slot's fence signaled and
\* the slot index as it was.
FalseKeepsFenceSignaled ==
    BeginFrameReturnStep /\ call'.result = "false" =>
        /\ call'.acquired = "out_of_date"
        /\ rs'.frame = rs.frame
        /\ rs'.in_flight_fences = rs.in_flight_fences
        /\ gpu'.signaled[SlotFence(rs.frame)]

\* The fence a begin_frame call waits on is signaled or has a submission
\* pending on it.
WaitedFenceWillSignal ==
    pc = "begin_frame" /\ rs_status = "running" =>
        \/ gpu.signaled[SlotFence(rs.frame)]
        \/ gpu.pending[SlotFence(rs.frame)] > 0

\* Every begin_frame call returns.
BeginFrameReturns_Eventually == (pc = "begin_frame") ~> (pc # "begin_frame")

\* C25: begin_frame resets the current slot's fence only after an acquire
\* that yielded an image; when it returns false (out-of-date) the fence is
\* still signaled and the slot index unchanged; the fence a call waits on
\* is signaled or about to be; and, the GPU completing what is submitted,
\* every begin_frame call of the render loop returns.
C25_BeginFrameReturns ==
    /\ [][ResetAfterAcquire /\ FalseKeepsFenceSignaled]_vars
    /\ []WaitedFenceWillSignal
    /\ BeginFrameReturns_Eventually

\* C25, witness: the render loop is inside the begin_frame that follows
\* one that returned false, and the fence it waits on is signaled.
C25_Witness ==
    /\ pc = "begin_frame" /\ rs_status = "running"
    /\ call.op = "begin_frame" /\ call.result = "false"
    /\ gpu.signaled[SlotFence(rs.frame)]

\* C25, second witness: the render loop is inside begin_frame and blocked:
\* the fence is not signaled, the submission of the slot's last frame is
\* pending.
C25_WitnessBlocked ==
    /\ pc = "begin_frame" /\ rs_status = "running"
    /\ ~gpu.signaled[SlotFence(rs.frame)]
    /\ gpu.pending[SlotFence(rs.frame)] > 0


---------------------------------------------------------------------------
(* C26: growth doubles the capacity, new slots start at generation 0 and
   are handed out in index order *)

\* A malloc that grew the pool and returned a handle.
GrowthStep == MallocStep /\ last'.grew

\* What the growth did: the free stack was empty; the capacity is twice
\* what it was, or the limit; the old generations are kept and the new
\* ones are 0; the handle returned is that of the first new slot; the
\* other new slots are on the free stack, the lowest index on top.
GrowthDoubles ==
    LET N       == Len(pool.generations)
        new_len == Len(pool'.generations)
    IN /\ pool.free_indices = <<>>
       /\ new_len = Min(2 * N, GrowLimit)
       /\ Len(pool'.items) = new_len
       /\ \A i \in 0..(new_len - 1) :
             pool'.generations[i + 1] = IF i < N THEN pool.generations[i + 1] ELSE 0
       /\ last'.h = Handle(N, 0)
       /\ Len(pool'.free_indices) = new_len - N - 1
       /\ \A k \in 1..(new_len - N - 1) : pool'.free_indices[k] = new_len - k

\* The slot of this handle has never been freed.
FreshSlot(h) == \A f \in freed : f.index # h.index

\* Two mallocs in a row, the first of which returned a slot that had never
\* been used: the second returns the next index, at generation 0.
SuccessiveMallocsAscend ==
    /\ MallocStep
    /\ last.op = "malloc" /\ last.found /\ FreshSlot(last.h)
    => last'.h = Handle(last.slot + 1, 0)

\* C26: a growth doubles the capacity, clamped to the limit; the new slots
\* start at generation 0; growing from N slots, the malloc that grew
\* returns index N and the mallocs that follow it return N+1, N+2, ... in
\* ascending order.
C26_GrowthOrder ==
    [][(GrowthStep => GrowthDoubles) /\ SuccessiveMallocsAscend]_vars

\* C26, witness: a pool grown from 2 slots to 4 has handed out index 2
\* and then, without growing again, index 3.
C26_Witness ==
    /\ last.op = "malloc" /\ last.found /\ ~last.grew
    /\ last.h = Handle(3, 0)
    /\ Handle(2, 0) \in live
    /\ Len(pool.generations) = 4
    /\ FreshSlot(last.h)

\* C26, second witness: a growth that was clamped to the limit.
C26_WitnessClamped ==
    /\ last.op = "malloc" /\ last.grew
    /\ 2 * last.cap_before > GrowLimit
    /\ Len(pool.generations) = GrowLimit
    /\ last.h = Handle(last.cap_before, 0)


---------------------------------------------------------------------------
(* C27: generations and items have one length, and is_match is the test
   of index and generation *)

\* Every value a Handle can have.
AllHandles == {Handle(i, g) : i \in 0..U16_MAX, g \in 0..U16_MAX}

\* is_match(h) is: the index is below the length, and the generation
\* stored at the index is the handle's; and a handle that matches has an
\* item, so get and get_mut return it.
IsMatchIsIndexAndGeneration ==
    \A h \in AllHandles :
        /\ is_match(pool, h) <=> /\ h.index < Len(pool.items)
                                 /\ pool.generations[h.index + 1] = h.generation
        /\ is_match(pool, h) => get(pool, h) = [found |-> TRUE, slot |-> h.index]

\* C27: in every reachable state of the pool, generations and items have
\* the same length, and is_match(h) holds exactly when h.index is below
\* that length and generations[h.index] equals h.generation.
C27_LengthsAgree ==
    /\ Len(pool.generations) = Len(pool.items)
    /\ IsMatchIsIndexAndGeneration

\* C27, witness: a pool that has grown and in which slots were freed: one
\* handle it gave out matches and another does not, and a handle whose
\* index is beyond the length does not either.
C27_Witness ==
    /\ Len(pool.items) > init_size
    /\ Len(pool.items) < U16_MAX
    /\ \E h \in issued : is_match(pool, h)
    /\ \E h \in issued : ~is_match(pool, h)
    /\ ~is_match(pool, Handle(Len(pool.items), 0))


---------------------------------------------------------------------------
(* C28: the caches memoize *)

\* A create_render_pass / create_framebuffer call has been made in this step.
CacheCreateStep(op) == ncalls' # ncalls /\ last_cache'.op = op

\* What a call did to its cache and to the driver's objects of its kind:
\* a hit leaves both as they were and returns the cached handle; a miss
\* on which the driver fails (or a call that did not get to
\* get_or_create) leaves both as they were; a miss on which the driver
\* succeeds creates one object and inserts one entry, that of the object
\* under a key that was not there.
Memoizes(old_cache, new_cache, old_alive, new_alive, n_old, n_new) ==
    IF last_cache'.ok /\ ~last_cache'.hit
    THEN /\ n_new = n_old + 1
         /\ last_cache'.raw \notin old_alive
         /\ new_alive = old_alive \cup {last_cache'.raw}
         /\ \E e \in new_cache :
               /\ e.raw = last_cache'.raw
               /\ ~contains_key(old_cache, e.key)
               /\ new_cache = old_cache \cup {e}
         /\ Cardinality(new_cache) = Cardinality(old_cache) + 1
    ELSE /\ n_new = n_old
         /\ new_alive = old_alive
         /\ new_cache = old_cache
         /\ last_cache'.hit => \E e \in old_cache : e.raw = last_cache'.raw

MemoizesRenderPasses ==
    CacheCreateStep("create_render_pass") =>
        /\ Memoizes(device.render_pass_cache, device'.render_pass_cache,
                    vk_alive.render_passes, vk_alive'.render_passes,
                    vk_alive.created.render_pass, vk_alive'.created.render_pass)
        /\ device'.framebuffer_cache = device.framebuffer_cache
        /\ vk_alive'.created.framebuffer = vk_alive.created.framebuffer

MemoizesFramebuffers ==
    CacheCreateStep("create_framebuffer") =>
        /\ Memoizes(device.framebuffer_cache, device'.framebuffer_cache,
                    vk_alive.framebuffers, vk_alive'.framebuffers,
                    vk_alive.created.framebuffer, vk_alive'.created.framebuffer)
        /\ device'.render_pass_cache = device.render_pass_cache
        /\ vk_alive'.created.render_pass = vk_alive.created.render_pass

\* The descriptors of the get_or_create calls that returned Ok.
DescriptorsSeen(kind) == {c.desc : c \in cache_calls[kind]}

\* The number of objects the driver has created is the number of distinct
\* descriptors seen, and these are the keys of the cache.
CreatedIsDistinctDescriptors ==
    /\ vk_alive.created.render_pass = Cardinality(DescriptorsSeen("render_pass"))
    /\ vk_alive.created.framebuffer = Cardinality(DescriptorsSeen("framebuffer"))
    /\ {e.key : e \in device.render_pass_cache} = DescriptorsSeen("render_pass")
    /\ {e.key : e \in device.framebuffer_cache} = DescriptorsSeen("framebuffer")
    /\ Cardinality(device.render_pass_cache) = vk_alive.created.render_pass
    /\ Cardinality(device.framebuffer_cache) = vk_alive.created.framebuffer

\* C28: the number of backend objects created equals the number of
\* distinct descriptors seen; a hit creates nothing and leaves the cache
\* unchanged, a miss creates exactly one object and inserts exactly one
\* entry; if the creation fails on a miss, nothing is inserted.
C28_Memoization ==
    /\ [][MemoizesRenderPasses /\ MemoizesFramebuffers]_vars
    /\ []CreatedIsDistinctDescriptors

\* C28, witness: four calls have been made for framebuffers and render
\* passes, the last one a hit; two objects of one kind were created for
\* two descriptors.
C28_Witness ==
    /\ last_cache.op \in {"create_render_pass", "create_framebuffer"}
    /\ last_cache.ok /\ last_cache.hit
    /\ \E kind \in {"render_pass", "framebuffer"} :
          /\ vk_alive.created[kind] = 2
          /\ Cardinality(DescriptorsSeen(kind)) = 2

\* C28, second witness: the driver failed on a miss and the cache, which
\* has an entry, has none for more descriptors than were created.
C28_WitnessFailedMiss ==
    /\ last_cache.op = "create_render_pass"
    /\ ~last_cache.ok
    /\ cache_status = "ok"
    /\ vk_alive.created.render_pass = 1
    /\ Cardinality(device.render_pass_cache) = 1


---------------------------------------------------------------------------
(* C29: generation wrap-around aliasing *)

\* The slot of h has been freed a whole number of 2^16 times since h was
\* issued: a slot's generation starts at 0 and every free adds one, so h
\* was issued when the number of frees was h.generation modulo 2^16.
WrappedSince(h) ==
    /\ frees[h.index] > h.generation
    /\ (frees[h.index] - h.generation) % (U16_MAX + 1) = 0

\* The handle stored in a slot that is allocated.
Occupant(i) == pool.items[i + 1].handle

\* An old handle whose slot has gone through 2^16 frees validates again:
\* get returns the slot, and when the slot is allocated its occupant's
\* handle equals the old one.
OldHandleAliases ==
    \A h \in issued :
        WrappedSince(h) =>
            /\ h \in freed
            /\ is_match(pool, h)
            /\ get(pool, h) = [found |-> TRUE, slot |-> h.index]
            /\ Occupant(h.index) # NoHandle =>
                  /\ Occupant(h.index) = h
                  /\ h \in live

\* C29: after exactly 2^16 free/malloc cycles on one slot, a handle issued
\* before the first of those frees equals the handle now live for that
\* slot, and get on the old handle returns the new occupant.
C29_WrapAliasing == pool_status = "ok" => OldHandleAliases

\* In a build with overflow checks no slot gets through 2^16 frees: the
\* free at generation u16::MAX panics.
C29_NoWrapWhenChecked ==
    overflow_checks => \A i \in 0..U16_MAX : frees[i] <= U16_MAX

\* C29, witness: a slot has been freed 2^16 times and allocated again; the
\* first handle issued for it is the handle of its present occupant.
C29_Witness ==
    /\ pool_status = "ok"
    /\ \E h \in issued :
          /\ frees[h.index] = h.generation + U16_MAX + 1
          /\ h \in freed
          /\ last.op = "malloc" /\ last.h = h
          /\ Occupant(h.index) = h
          /\ get(pool, h).found


---------------------------------------------------------------------------
(* C30: the handle stored in an item *)

\* The indices on the free stack: the slots that were freed and those that
\* were never allocated.
OnFreeStack == {pool.free_indices[k] : k \in DOMAIN pool.free_indices}

\* Every slot is on the free stack with None stored in its item, or is
\* allocated with Some(h) stored, h being the slot's position and its
\* present generation, a handle malloc has returned.
StoredHandleIsIdentity ==
    \A i \in 0..(Len(pool.items) - 1) :
        IF i \in OnFreeStack
        THEN pool.items[i + 1].handle = NoHandle
        ELSE /\ pool.items[i + 1].handle = Handle(i, pool.generations[i + 1])
             /\ pool.items[i + 1].handle \in issued

\* The handles that are live are those stored in the allocated slots.
LiveHandlesAreStored ==
    pool_status = "ok" =>
        /\ \A h \in live : /\ h.index \notin OnFreeStack
                            /\ pool.items[h.index + 1].handle = h
        /\ \A i \in 0..(Len(pool.items) - 1) :
              i \notin OnFreeStack => pool.items[i + 1].handle \in live

\* C30: for every slot that is allocated and not freed, the item's stored
\* handle is Some(h), h being the handle malloc returned (its index the
\* slot's position, its generation generations[index]); for every slot
\* that is on the free stack or was never allocated, it is None.
C30_StoredIdentity == StoredHandleIsIdentity /\ LiveHandlesAreStored

\* C30 for pools none of whose slots has been freed more than u16::MAX
\* times: every allocated slot stores Some(h), h the handle malloc
\* returned for it, and every slot that is on the free stack or was never
\* allocated stores None.
C30_StoredIdentityNoWrap ==
    NoSlotWrapped => (StoredHandleIsIdentity /\ LiveHandlesAreStored)

\* Past the wrap-around a slot is allocated, with Some(h) stored, and its
\* index is on the free stack as well: free with a handle freed earlier
\* pushed the index a second time and malloc popped it once.
C30_WitnessAllocatedOnFreeStack ==
    /\ pool_status = "ok"
    /\ \E h \in live : /\ h.index \in OnFreeStack
                        /\ pool.items[h.index + 1].handle = h

\* C30, witness: the pool holds an allocated slot that was used before
\* and a slot that was never allocated.
C30_Witness ==
    /\ pool_status = "ok"
    /\ \E h \in live : h.generation > 0 /\ pool.items[h.index + 1].handle = h
    /\ \E i \in OnFreeStack :
          /\ \A h \in issued : h.index # i
          /\ pool.items[i + 1].handle = NoHandle

\* C30, second witness: a pool that has grown holds an allocated slot
\* and a freed one.
C30_WitnessFreed ==
    /\ pool_status = "ok"
    /\ Len(pool.items) > init_size
    /\ \E h \in live : pool.items[h.index + 1].handle = h
    /\ \E i \in OnFreeStack : frees[i] > 0 /\ pool.items[i + 1].handle = NoHandle

---------------------------------------------------------------------------
(* Claims about freeing twice                                              *)

\* A call of free whose handle an earlier call has freed.
SecondFree == last'.op = "free" /\ last' # last /\ last'.h \in freed

\* The call returns and has changed neither items, generations nor the
\* free stack; whatever is allocated in the handle's slot stays so.
FreeIsNoOp ==
    /\ pool_status' = "ok"
    /\ pool' = pool
    /\ live' = live
    /\ \A g \in live : g.index = last'.h.index =>
          /\ get(pool', g) = get(pool, g)
          /\ get(pool, g).found =>
                pool'.items[g.index + 1] = pool.items[g.index + 1]

\* A call of free with the handle the call before it freed, as
\* RenderSystem::destroy does with the depth image: the slot is released
\* by the first call alone.
FreeRightAfterFree ==
    /\ last'.op = "free" /\ last' # last
    /\ last.op = "free" /\ last.found /\ pool_status = "ok"
    /\ last'.h = last.h

\* C31 as stated: a second free with the same handle returns and changes
\* neither items, generations nor the free stack, and leaves what has been
\* allocated into the slot meanwhile valid and untouched.
C31_DestroyIdempotent == [][SecondFree => FreeIsNoOp]_vars

\* C31, amended: a second free with the same handle is without effect as
\* long as the slot has been released fewer than 2^16 times; a free that
\* directly follows the free of the same handle is always without effect.
C31_DestroyIdempotentNoWrap ==
    /\ [][SecondFree /\ NotWrapped(last'.h.index) => FreeIsNoOp]_vars
    /\ [][FreeRightAfterFree => ~last'.found /\ FreeIsNoOp]_vars

\* C31, witness: a handle has been freed, its slot allocated again, and a
\* second free with the old handle found nothing; the new handle resolves.
C31_Witness ==
    /\ pool_status = "ok"
    /\ last.op = "free" /\ ~last.found /\ last.h \in freed
    /\ NotWrapped(last.h.index)
    /\ \E g \in live : g.index = last.h.index /\ get(pool, g).found

\* C31, witness: the second of two frees in a row with one handle.
C31_WitnessTwiceInARow ==
    /\ pool_status = "ok"
    /\ last.op = "free" /\ ~last.found /\ last.h \in freed
    /\ Top(free_order) = last.h

\* C31, what the wrap allows: a second free with a handle whose slot has
\* come back to the handle's generation released the slot once more.
C31_WitnessWrapped ==
    /\ pool_status = "ok"
    /\ last.op = "free" /\ last.found
    /\ ~NotWrapped(last.h.index)
    /\ frees[last.h.index] = U16_MAX + 2

---------------------------------------------------------------------------
(* Claims about the free stack as a partition of the slots                 *)

\* How often index i is on the free stack.
TimesOnFreeStack(i) ==
    Cardinality({j \in 1..Len(pool.free_indices) : pool.free_indices[j] = i})

\* The live handles whose index is i.
LiveAt(i) == {h \in live : h.index = i}

\* Each slot is on the free stack once and has no live handle, or is not
\* on the free stack and has one live handle; the free stack holds slot
\* indices only.
FreeStackPartition ==
    /\ \A i \in 0..(Len(pool.generations) - 1) :
          \/ TimesOnFreeStack(i) = 1 /\ LiveAt(i) = {}
          \/ TimesOnFreeStack(i) = 0 /\ Cardinality(LiveAt(i)) = 1
    /\ \A j \in 1..Len(pool.free_indices) :
          pool.free_indices[j] \in 0..(Len(pool.generations) - 1)
    /\ \A h \in live : h.index \in 0..(Len(pool.generations) - 1)

\* C33 as stated: in every state of the pool between two calls each slot
\* index is on the free stack exactly once or belongs to exactly one live
\* handle, never both.
C33_FreeStackPartition == pool_status = "ok" => FreeStackPartition

\* C33, amended: the same, for pools none of whose slots has been released
\* 2^16 times.
C33_FreeStackPartitionNoWrap ==
    pool_status = "ok" /\ NoSlotWrapped => FreeStackPartition

\* C33, witness: the pool has grown, slots are live and slots are free,
\* among them one that was allocated and freed, and a free with a handle
\* freed before has been refused.
C33_Witness ==
    /\ pool_status = "ok" /\ NoSlotWrapped
    /\ Len(pool.generations) > init_size
    /\ live # {} /\ pool.free_indices # <<>>
    /\ last.op = "free" /\ ~last.found /\ last.h \in freed
    /\ TimesOnFreeStack(last.h.index) = 1

\* C33, what the wrap allows: one index is on the free stack twice.
C33_WitnessTwiceOnFreeStack ==
    /\ pool_status = "ok"
    /\ \E i \in 0..(Len(pool.generations) - 1) : TimesOnFreeStack(i) = 2

---------------------------------------------------------------------------
(* Claims about reserving entities                                         *)

\* The entities reserve_entity has returned since the last flush are
\* pairwise distinct.
ReservedDistinct ==
    \A j, k \in 1..Len(ecs_reserved) : ecs_reserved[j] = ecs_reserved[k] => j = k

\* An entity that is allocated: its id has a meta with its generation and
\* a location.
IsAllocatedEntity(entity) ==
    /\ entity.id < Len(entities.metas)
    /\ entities.metas[entity.id + 1].generation = entity.generation
    /\ entities.metas[entity.id + 1].location.index # U32_MAX

\* None of them is an allocated entity, nor has the id of one.
ReservedNotAllocated ==
    \A j \in 1..Len(ecs_reserved) :
        /\ ~IsAllocatedEntity(ecs_reserved[j])
        /\ \A x \in ecs_live : x.id # ecs_reserved[j].id

\* How often the last flush called init with this id.
TimesInit(id) ==
    Cardinality({j \in 1..Len(ecs_flush.inits) : ecs_flush.inits[j] = id})

\* The last flush called init once for each id reserved before it and for
\* no other id, and each of these entities is allocated now.
InitOncePerReserved ==
    /\ \A j \in 1..Len(ecs_flush.reserved) :
          TimesInit(ecs_flush.reserved[j].id) = 1
    /\ \A j \in 1..Len(ecs_flush.inits) :
          \E k \in 1..Len(ecs_flush.reserved) :
             ecs_flush.reserved[k].id = ecs_flush.inits[j]

\* A flush was the last call, and no call is in progress.
AfterFlush == ecs_last.op = "flush_reserved_entities" /\ NoSharedBorrow

\* C32 as stated: the entities reserve_entity returns between two flushes
\* are pairwise distinct and none is an allocated entity; a call of
\* flush_reserved_entities calls init exactly once for each reserved id and
\* leaves free_cursor == pending.len().
C32_ReserveAndFlush ==
    /\ ReservedDistinct
    /\ ReservedNotAllocated
    /\ AfterFlush =>
          /\ ecs_status = "ok"
          /\ InitOncePerReserved
          /\ ~needs_flush(entities)
          /\ \A j \in 1..Len(ecs_flush.reserved) :
                IsAllocatedEntity(ecs_flush.reserved[j])

\* What holds: the same for every flush that returns; and a flush returns
\* unless the build has overflow checks and the entities allocated and
\* reserved are more than u32::MAX.
C32_ReserveAndFlushReturned ==
    /\ ReservedDistinct
    /\ ReservedNotAllocated
    /\ AfterFlush /\ ecs_status = "ok" =>
          /\ InitOncePerReserved
          /\ ~needs_flush(entities)
          /\ \A j \in 1..Len(ecs_flush.reserved) :
                IsAllocatedEntity(ecs_flush.reserved[j])
    /\ AfterFlush /\ ecs_status # "ok" =>
          /\ overflow_checks
          /\ ecs_status = "panic_overflow"
          /\ Cardinality({x.id : x \in ecs_live}) + Len(ecs_flush.reserved) > U32_MAX

\* Two threads were inside reserve_entity at once and a flush has returned
\* for an id taken from the free list and a new id.
C32_WitnessFlushed ==
    /\ AfterFlush /\ ecs_status = "ok"
    /\ Len(ecs_flush.reserved) >= 2
    /\ \E j, k \in 1..Len(ecs_flush.reserved) :
          /\ ecs_freed[ecs_flush.reserved[j].id] > 0
          /\ ecs_freed[ecs_flush.reserved[k].id] = 0

\* Both threads are past their fetch_sub and neither has returned.
C32_WitnessConcurrent ==
    /\ ecs_status = "ok"
    /\ \A t \in DOMAIN reserving : reserving[t].busy
    /\ entities.pending # <<>>

\* A flush has panicked: nothing was initialized.
C32_WitnessFlushPanics ==
    /\ AfterFlush /\ ecs_status = "panic_overflow"
    /\ ecs_flush.reserved # <<>>
    /\ ecs_flush.inits = <<>>

---------------------------------------------------------------------------
(* Claims about valid handles and destroyed backend objects                *)

\* The backend object behind a handle its pool reports as valid.
RawOf(p, h) == p.items[get(p, h).slot + 1].raw

\* The handles create_* has returned that their pool reports as valid
\* refer to backend objects that are alive.
ValidRenderPassesAlive ==
    \A h \in held.render_pass :
        get(res_pool.render_pass, h).found =>
            RawOf(res_pool.render_pass, h) \in vk_alive.render_passes

ValidFramebuffersAlive ==
    \A h \in held.framebuffer :
        get(res_pool.framebuffer, h).found =>
            RawOf(res_pool.framebuffer, h) \in vk_alive.framebuffers

\* C34: every render-pass or framebuffer handle that its pool reports as
\* valid refers to a backend object that has not been destroyed, after any
\* sequence of create and destroy calls.
C34_ValidHandlesAlive ==
    cache_status = "ok" => ValidRenderPassesAlive /\ ValidFramebuffersAlive

\* No destroy_render_pass or destroy_framebuffer has destroyed an object.
NothingDestroyed ==
    /\ \A c \in cache_calls.render_pass : c.raw \in vk_alive.render_passes
    /\ \A c \in cache_calls.framebuffer : c.raw \in vk_alive.framebuffers

\* What holds: valid handles refer to live objects as long as no object
\* has been destroyed.
C34_ValidHandlesAliveUntilDestroy ==
    cache_status = "ok" /\ NothingDestroyed =>
        ValidRenderPassesAlive /\ ValidFramebuffersAlive

\* Two create_render_pass calls with equal descriptors returned two
\* handles for one backend object, one handle was destroyed, and the other
\* is valid and refers to the destroyed object.
C34_WitnessShared ==
    /\ cache_status = "ok"
    /\ last_cache.op = "destroy_render_pass" /\ last_cache.ok /\ ~last_cache.hit
    /\ \E h \in held.render_pass :
          /\ get(res_pool.render_pass, h).found
          /\ RawOf(res_pool.render_pass, h) = last_cache.raw
          /\ last_cache.raw \notin vk_alive.render_passes

---------------------------------------------------------------------------
(* Claims about create calls that fail                                     *)

\* The number of slots of a pool that are not on its free stack.
LiveSlots(p) == Len(p.generations) - Len(p.free_indices)

\* The step is a create call of this kind that returned an error.
FailedCreate(op) ==
    CacheCreateStep(op) /\ ~last_cache'.ok /\ cache_status' = "ok"

\* The call reached its malloc.
TookSlot(kind) == res_pool'[kind] # res_pool[kind]

\* C35: when a create call returns an error, the number of live slots of
\* its pool is the same as before the call.
C35_FailedCreateLeaksNothing ==
    [][/\ FailedCreate("create_render_pass") =>
             LiveSlots(res_pool'.render_pass) = LiveSlots(res_pool.render_pass)
       /\ FailedCreate("create_framebuffer") =>
             LiveSlots(res_pool'.framebuffer) = LiveSlots(res_pool.framebuffer)]_vars

\* What holds: a create call that fails after its malloc leaves one slot
\* more live than before, and no caller holds a handle to it; one that
\* fails before its malloc changes nothing.
C35_FailedCreateKeepsSlot ==
    [][\A kind \in {"render_pass", "framebuffer"} :
          FailedCreate("create_" \o kind) =>
             /\ held' = held
             /\ IF TookSlot(kind)
                THEN LiveSlots(res_pool'[kind]) = LiveSlots(res_pool[kind]) + 1
                ELSE res_pool' = res_pool]_vars

\* A create_framebuffer has failed and a slot of the framebuffer pool is
\* live that no handle ever returned refers to.
C35_WitnessLeak ==
    /\ cache_status = "ok"
    /\ last_cache.op = "create_framebuffer" /\ ~last_cache.ok
    /\ LiveSlots(res_pool.framebuffer) >
          Cardinality({h \in held.framebuffer : get(res_pool.framebuffer, h).found})

---------------------------------------------------------------------------
(* Claims about the recorded image index                                   *)

\* get_swapchain_framebuffer's `self.swapchain_framebuffers[self.image_index]`
\* is within bounds after the step.
FramebufferIndexInRange == rs'.image_index < Len(rs'.swapchain_framebuffers)

\* C36: whenever begin_frame has returned true, image_index is smaller
\* than swapchain_framebuffers.len(), for any number of images of the
\* swapchain.
C36_ImageIndexInRange == [][BeginFrameTrueStep => FramebufferIndexInRange]_vars

\* What holds: the recorded index is that of an image of the swapchain,
\* there are as many framebuffers as frame slots, and the index is within
\* the framebuffers when the swapchain has as many images as there are
\* frame slots.
C36_ImageIndexInRangeOfImages ==
    [][BeginFrameTrueStep =>
         /\ rs'.image_index < BackBuffers'
         /\ Len(rs'.swapchain_framebuffers) = rs'.max_frames_in_flight
         /\ BackBuffers' = rs'.max_frames_in_flight => FramebufferIndexInRange]_vars

\* begin_frame has returned true with the index of an image that has no
\* framebuffer, on a swapchain that was never recreated.
C36_WitnessAtCreation ==
    /\ rs_status = "running"
    /\ call.op = "begin_frame" /\ call.result = "true"
    /\ rs.swapchain.generation = 0
    /\ rs.image_index >= Len(rs.swapchain_framebuffers)

\* The same after a recreation.
C36_WitnessAfterRecreation ==
    /\ rs_status = "running"
    /\ call.op = "begin_frame" /\ call.result = "true"
    /\ rs.swapchain.generation > 0
    /\ get(p_swapchain, rs.swapchain).found
    /\ rs.image_index >= Len(rs.swapchain_framebuffers)

---------------------------------------------------------------------------
(* Claims about the pools' occupancy under recreate_swapchain              *)

\* A recreate_swapchain call that returned Ok.
RecreatedOk ==
    /\ bk_n' # bk_n
    /\ bk_call'.op = "recreate_swapchain"
    /\ bk_status' = "ok"

\* The new swapchain has as many images as the old one.
SameImageCount ==
    Len(BackBuffersIn(bk_pool', rs')) = Len(BackBuffersIn(bk_pool, rs))

\* Each of the five pools has as many live slots after the call as
\* before it.
OccupancyConserved ==
    \A k \in SwapchainKinds : LiveSlots(bk_pool'[k]) = LiveSlots(bk_pool[k])

\* No pool has grown in the call.
CapacityKept ==
    \A k \in SwapchainKinds :
        Len(bk_pool'[k].generations) = Len(bk_pool[k].generations)

\* The view handles of the old swapchain's back buffers.
OldViews ==
    UNION { {e.view : e \in bk_pool.image.items[BackBuffersIn(bk_pool, rs)[k].index + 1].views}
            : k \in DOMAIN BackBuffersIn(bk_pool, rs) }

\* Every back-buffer image handle and every view handle of the old
\* swapchain is invalid after the call.
OldHandlesInvalid ==
    /\ \A k \in DOMAIN BackBuffersIn(bk_pool, rs) :
          ~is_match(bk_pool'.image, BackBuffersIn(bk_pool, rs)[k])
    /\ \A v \in OldViews : ~is_match(bk_pool'.image_view, v)

\* The occupancy of the pools as the RenderSystem's fields give it: one
\* swapchain, its images and the depth image, one view per framebuffer
\* and the depth view, one framebuffer per frame in flight, no command
\* buffer.
OccupancyByCount ==
    /\ LiveSlots(bk_pool.swapchain) = 1
    /\ LiveSlots(bk_pool.image) = Len(BackBuffersIn(bk_pool, rs)) + 1
    /\ LiveSlots(bk_pool.image_view) = rs.max_frames_in_flight + 1
    /\ LiveSlots(bk_pool.framebuffer) = rs.max_frames_in_flight
    /\ LiveSlots(bk_pool.command_buffer) = 0

\* C37: a recreate_swapchain that returns Ok and whose new swapchain has as
\* many images as the old one leaves the number of live slots of the
\* swapchain, image, image-view, framebuffer and command-buffer pools as it
\* was, and grows none of them; every back-buffer image handle and every
\* view handle of the old swapchain is invalid afterwards; and after any
\* number of successful recreations the pools hold one swapchain, its
\* images and the depth image, one view per frame in flight and the depth
\* view, one framebuffer per frame in flight and no command buffer.
C37_RecreateConservesOccupancy ==
    /\ [][(RecreatedOk /\ SameImageCount) =>
              (OccupancyConserved /\ CapacityKept /\ OldHandlesInvalid)]_vars
    /\ [](bk_status = "ok" => OccupancyByCount)

\* C37 happens: a second or later recreation has returned Ok with as many
\* images as the swapchain before it had, each frame in flight having had
\* its view and framebuffer.
C37_Witness ==
    /\ bk_call.op = "recreate_swapchain"
    /\ bk_status = "ok"
    /\ bk_n >= 2
    /\ bk_call.old_images = bk_call.new_images
    /\ rs.max_frames_in_flight = MaxSlots
    /\ Len(rs.swapchain_framebuffers) = MaxSlots

\* C37 happens past the generation wrap-around: recreations have returned
\* Ok until the swapchain's slot is back at generation 0.
C37_WitnessWrapped ==
    /\ bk_call.op = "recreate_swapchain"
    /\ bk_status = "ok"
    /\ bk_n > U16_MAX
    /\ rs.swapchain.generation = 0

===========================================================================
